---- MODULE Spec2Model ----
(***************************************************************************)
(* A model of the Instagram auto-poster (src/autoposter.py): the ledger of *)
(* commented posts, the selection of new posts, the dispatch of comments   *)
(* and the run loop that drives them.                                      *)
(***************************************************************************)
EXTENDS Integers, Sequences, FiniteSets, TLC

\* ------------------------------------------------------------------ bounds

\* Longest batch the post fetcher returns in the model (the code asks for 5).
MaxBatch == 2

\* Number of monitoring cycles a behaviour may start.
MaxCycles == 2

\* Posts with pk <= MaxFeedPk are the ones the feed of the run loop serves.
MaxFeedPk == 3

\* Posts with pk <= MaxLedgerPk are the ones SelectSpec and LedgerSpec draw from.
MaxLedgerPk == 5

\* ----------------------------------------------------------- configuration

\* Config.main_accounts, in configured order (usernames).
main_accounts == <<"main1", "main2">>

\* Config.sub_accounts, in configured order (usernames).
sub_accounts == <<"sub1", "sub2", "sub3">>

\* Config.max_comments_per_post (its default).
max_comments_per_post == 2

\* Config.allowed_media_types (its default: everything except IGTV).
allowed_media_types == {"photo", "video", "reel", "album"}

\* The cap of commented_post_ids.
MaxCommentedIds == 100

\* last_commented_post_id of a record that was never written (Python None);
\* post ids are positive.
None == 0

\* How far apart the two ends of comment_delay_range are.
MaxDelaySpread == 1

\* The autoposter processes the machine runs side by side at most.
MaxProcesses == 2

\* config.comment_delay_range, from the default lower end.
comment_delay_range == <<30, 30 + MaxDelaySpread>>

\* The comments predefined_comments is drawn from.
Comments == <<"Great post!", "Love this!">>

MainNames == {main_accounts[i] : i \in DOMAIN main_accounts}
SubNames == {sub_accounts[i] : i \in DOMAIN sub_accounts}

\* ------------------------------------------------------------------- posts

\* The posts the upstream feed may return (instagrapi Media: pk, taken_at as
\* integer seconds, media_type, product_type).
Posts ==
    { [pk |-> 1, taken_at |-> 1010, media_type |-> 1, product_type |-> "feed"],
      [pk |-> 2, taken_at |-> 1020, media_type |-> 1, product_type |-> "feed"],
      [pk |-> 3, taken_at |-> 1030, media_type |-> 2, product_type |-> "feed"],
      [pk |-> 4, taken_at |-> 1020, media_type |-> 2, product_type |-> "clips"],
      [pk |-> 5, taken_at |-> 1040, media_type |-> 2, product_type |-> "igtv"],
      [pk |-> 6, taken_at |-> 1040, media_type |-> 8, product_type |-> "feed"],
      [pk |-> 7, taken_at |-> 1050, media_type |-> 3, product_type |-> "feed"] }

FeedPosts == {p \in Posts : p.pk <= MaxFeedPk}

\* The posts SelectSpec and LedgerSpec draw from.
LedgerPosts == {p \in Posts : p.pk <= MaxLedgerPk}

\* Posts older than every post of Posts, to fill a ledger up to its cap.
FillerPost(i) ==
    [pk |-> 1000 + i, taken_at |-> i, media_type |-> 1, product_type |-> "feed"]

\* All sequences over S of length at most n.
BoundedSeq(S, n) == UNION {[1..k -> S] : k \in 0..n}

Range(s) == {s[i] : i \in DOMAIN s}

Min(a, b) == IF a <= b THEN a ELSE b

\* get_media_type_name
get_media_type_name(media) ==
    IF media.media_type = 1 THEN "photo"
    ELSE IF media.media_type = 2
         THEN IF media.product_type = "igtv" THEN "igtv"
              ELSE IF media.product_type = "clips" THEN "reel"
              ELSE "video"
    ELSE IF media.media_type = 8 THEN "album"
    ELSE "unknown"

\* Mutant of should_comment_on_media: every media type is commented on.
AnyMedia(media) == TRUE

\* should_comment_on_media
should_comment_on_media(media) ==
    get_media_type_name(media) \in allowed_media_types

\* ------------------------------------------------------------------ ledger

\* Mutant of get_commented_posts_file: one file whatever the username.
SharedFile(username) == main_accounts[1]

\* get_commented_posts_file: the file "<username>_commented.json" of the
\* ledger directory, named here by the username.
get_commented_posts_file(username) == username

\* A ledger file is absent, holds a record, or is unreadable (a torn write).
AbsentFile == [state |-> "absent"]
CorruptFile == [state |-> "corrupt"]
OkFile(data) == [state |-> "ok", data |-> data]

\* The default structure load_commented_posts returns.
DefaultRecord ==
    [last_commented_post_id |-> None,
     last_commented_timestamp |-> 0,
     commented_post_ids |-> <<>>]

\* Mutant of load_commented_posts: the fallback record names a last post.
LoadedOrPlaceholder(file) ==
    IF file.state = "ok" THEN file.data
    ELSE [DefaultRecord EXCEPT !.last_commented_post_id = -1]

\* load_commented_posts: the stored record, or the default one when the file
\* does not exist or json.load raises.
load_commented_posts(file) ==
    IF file.state = "ok" THEN file.data ELSE DefaultRecord

\* What a save can do to the file: write it, fail in open() and leave it as it
\* was, or fail after open() truncated it.
SaveOutcomes == {"ok", "unchanged", "torn"}

\* save_commented_posts: every exception is caught and logged.
save_commented_posts(file, data, outcome) ==
    IF outcome = "ok" THEN OkFile(data)
    ELSE IF outcome = "unchanged" THEN file
    ELSE CorruptFile

\* Mutant of LastN: data["commented_post_ids"][:100], the oldest entries kept.
FirstN(s, n) ==
    IF Len(s) > n THEN SubSeq(s, 1, n) ELSE s

\* data["commented_post_ids"][-100:]
LastN(s, n) ==
    IF Len(s) > n THEN SubSeq(s, Len(s) - n + 1, Len(s)) ELSE s

\* Mutant of MarkedRecord: the append without its "not in" test.
AlwaysAppended(data, post_id, post_timestamp) ==
    [last_commented_post_id |-> post_id,
     last_commented_timestamp |-> post_timestamp,
     commented_post_ids |->
        LastN(Append(data.commented_post_ids, post_id), MaxCommentedIds)]

\* Mutant of MarkedRecord: the id is appended, the last post is not updated.
LastPostNotUpdated(data, post_id, post_timestamp) ==
    LET ids == IF post_id \in Range(data.commented_post_ids)
               THEN data.commented_post_ids
               ELSE Append(data.commented_post_ids, post_id)
    IN [data EXCEPT !.commented_post_ids = LastN(ids, MaxCommentedIds)]

\* The record mark_post_commented hands to save_commented_posts.
MarkedRecord(data, post_id, post_timestamp) ==
    LET ids == IF post_id \in Range(data.commented_post_ids)
               THEN data.commented_post_ids
               ELSE Append(data.commented_post_ids, post_id)
    IN [last_commented_post_id |-> post_id,
        last_commented_timestamp |-> post_timestamp,
        commented_post_ids |-> LastN(ids, MaxCommentedIds)]

\* mark_post_commented: load, update, truncate, save.
mark_post_commented(file, post_id, post_timestamp, outcome) ==
    save_commented_posts(
        file,
        MarkedRecord(load_commented_posts(file), post_id, post_timestamp),
        outcome)

\* --------------------------------------------------------------- selection

\* The indices of recent_posts whose posts pass should_comment_on_media.
AllowedIndices(recent_posts) ==
    {i \in DOMAIN recent_posts : should_comment_on_media(recent_posts[i])}

\* Mutant of FirstRunSelection: the loop without its break, which leaves the
\* last post of an allowed type in posts_to_comment.
FirstRunNoBreak(recent_posts) ==
    LET ok == {i \in DOMAIN recent_posts :
                 get_media_type_name(recent_posts[i]) \in allowed_media_types}
    IN IF ok = {} THEN <<>>
       ELSE <<recent_posts[CHOOSE i \in ok : \A j \in ok : i >= j]>>

\* First-run branch of check_new_posts: the first post of an allowed type.
FirstRunSelection(recent_posts) ==
    LET ok == AllowedIndices(recent_posts)
    IN IF ok = {} THEN <<>>
       ELSE <<recent_posts[CHOOSE i \in ok : \A j \in ok : i <= j]>>

\* Mutant of IsNewPost: the test without the check of commented_post_ids.
IsNewPostNoDedup(post, commented_data) ==
    /\ get_media_type_name(post) \in allowed_media_types
    /\ post.taken_at > commented_data.last_commented_timestamp

\* Mutant of IsNewPost: ">=" in place of ">" on the timestamps.
IsNewPostAtOrAfter(post, commented_data) ==
    /\ post.pk \notin {commented_data.commented_post_ids[i] :
                          i \in DOMAIN commented_data.commented_post_ids}
    /\ get_media_type_name(post) \in allowed_media_types
    /\ post.taken_at >= commented_data.last_commented_timestamp

\* The test of the steady-state loop of check_new_posts on one post.
IsNewPost(post, commented_data) ==
    /\ post.pk \notin Range(commented_data.commented_post_ids)
    /\ should_comment_on_media(post)
    /\ post.taken_at > commented_data.last_commented_timestamp

\* Steady-state branch of check_new_posts: the posts passing the test, in
\* fetch order.
SteadySelection(recent_posts, commented_data) ==
    SelectSeq(recent_posts, LAMBDA post : IsNewPost(post, commented_data))

\* posts_to_comment of check_new_posts, from the fetched batch and the record.
SelectNewPosts(recent_posts, commented_data) ==
    IF commented_data.last_commented_post_id = None
    THEN FirstRunSelection(recent_posts)
    ELSE SteadySelection(recent_posts, commented_data)

\* ----------------------------------------------------------------- dispatch

\* Mutant of AvailableSubAccounts: every logged-in account, enabled or not.
AllLoggedIn(clients, enabled) == clients

\* available_sub_accounts of process_new_post: logged in and enabled.
AvailableSubAccounts(clients, enabled) ==
    SelectSeq(clients, LAMBDA username : username \in enabled)

\* The number of accounts process_new_post samples.
SampleSize(available) == Min(Len(available), max_comments_per_post)

\* Mutant of RandomSamples: random.choices, which draws with replacement.
RandomChoices(population, k) ==
    [1..k -> {population[i] : i \in DOMAIN population}]

\* random.sample(population, k): every ordered choice of k distinct members.
RandomSamples(population, k) ==
    {s \in [1..k -> Range(population)] :
        \A i, j \in 1..k : i /= j => s[i] /= s[j]}

\* Mutant of ShouldMark: the post is marked whatever the outcomes were.
MarkAlways(commented) == TRUE

\* "if commented_successfully:" at the end of process_new_post.
ShouldMark(commented) == commented

\* Mutant of LoopDone: the loop with a break after the first failed comment.
LoopDoneOnFailure(tried, selected) ==
    \/ Len(tried) = Len(selected)
    \/ (tried /= <<>> /\ ~tried[Len(tried)].result)

\* "for username in selected_accounts": the loop of process_new_post is over
\* when every selected account had its turn.
LoopDone(tried, selected) == Len(tried) = Len(selected)

\* ------------------------------------------------------------ notifications

\* Each send_* method of TelegramNotifier, as the messages it hands to
\* send_message (which reports a failed or disabled delivery by returning
\* False and never raises).
send_startup_notification == <<"startup">>

\* Mutant of random_randint: the upper end passed over by one.
DelayPastRange(a, b) == a..(b + 1)

\* random.randint(a, b): any integer from a to b, both included.
random_randint(a, b) == a..b

\* No comment text (Python: no such argument, or none was drawn).
NoText == ""

\* send_message: what becomes of a message handed to it. A disabled notifier
\* returns False at once; an enabled one posts to the API and returns True, or
\* logs the bad status or the exception and returns False.
send_message(enabled) ==
    IF enabled THEN {"delivered", "failed"} ELSE {"disabled"}

\* send_comment_success: the message names the main account, the post (its
\* pk stands for its code), its media type, the comment given and the sub
\* account. A comment of up to 100 characters, as those of Comments, is shown
\* whole.
send_comment_success(main_account, post, comment, sub_account) ==
    [kind |-> "comment_success", main_account |-> main_account,
     post_code |-> post.pk, media_type |-> get_media_type_name(post),
     comment |-> comment, sub_account |-> sub_account]

\* send_comment_failure: the same without a comment.
send_comment_failure(main_account, post, sub_account) ==
    [kind |-> "comment_failure", main_account |-> main_account,
     post_code |-> post.pk, media_type |-> get_media_type_name(post),
     comment |-> NoText, sub_account |-> sub_account]

\* select_random_comment: the values random.choice can return; none when the
\* list is empty (IndexError).
select_random_comment(comments) == Range(comments)

\* send_error_notification; error_type tells the three callers apart.
send_error_notification(error_type) == <<error_type>>

\* send_login_issues: nothing is sent for an empty list.
send_login_issues(failed_accounts) ==
    IF failed_accounts = {} THEN <<>> ELSE <<"login_issues">>

send_shutdown_notification == <<"shutdown">>

\* Mutant of send_monitoring_cycle_summary: accounts_checked counted among the
\* things that happened.
SummaryIfChecked(stats) ==
    IF /\ stats.successful_comments = 0
       /\ stats.failed_comments = 0
       /\ stats.new_posts_found = 0
       /\ stats.accounts_checked = 0
    THEN <<>>
    ELSE <<"cycle_summary">>

\* send_monitoring_cycle_summary: "Skip notification if nothing happened".
send_monitoring_cycle_summary(stats) ==
    IF /\ stats.successful_comments = 0
       /\ stats.failed_comments = 0
       /\ stats.new_posts_found = 0
    THEN <<>>
    ELSE <<"cycle_summary">>

\* ------------------------------------------------------------------- state

\* monitoring_client before any login succeeded (Python None).
NoClient == ""

\* cycle_stats as __init__ and monitor_accounts reset it.
ZeroStats ==
    [successful_comments |-> 0, failed_comments |-> 0,
     accounts_checked |-> 0, new_posts_found |-> 0]

VARIABLES
    pc,                     \* where run() stands
    enabled_subs,           \* usernames of the sub accounts with enabled = True
    enabled_mains,          \* usernames of the main accounts with enabled = True
    telegram_enabled,       \* the notifier has enabled = True, a token and a chat id
    predefined_comments,    \* config.predefined_comments
    sub_clients,            \* keys of self.sub_clients, in insertion order
    monitoring_client,      \* username whose client monitors, or NoClient
    user_id,                \* main_account.user_id in memory ("" when unknown)
    config_file,            \* user_id of each main account as stored in config.json
    ledger,                 \* the <username>_commented.json files
    cycle_stats,            \* self.cycle_stats
    acct,                   \* index of the main account the cycle is at
    new_posts,              \* new_posts of monitor_accounts for that account
    post_idx,               \* index in new_posts of the post being processed
    selected_accounts,      \* selected_accounts of process_new_post
    commented_successfully, \* commented_successfully of process_new_post
    attempts,               \* comment_on_post calls of the current dispatch, in order
    sleeps,                 \* time.sleep calls of the current dispatch
    mark_calls,             \* mark_post_commented calls of the current dispatch
    cycles,                 \* monitoring cycles started so far
    succeeded,              \* history: <<main, pk>> whose dispatch ended with a success
    reselected,             \* history: <<main, pk>> selected in a cycle after such a dispatch
    written,                \* history: <<main, pk>> whose record was saved
    rewritten,              \* history: <<main, pk>> whose record was saved more than once
    recent_posts,           \* SelectSpec: recent_posts of check_new_posts
    commented_data,         \* SelectSpec: commented_data of check_new_posts
    posts_to_comment,       \* SelectSpec: posts_to_comment of check_new_posts
    appended,               \* LedgerSpec: ids appended since the record last read as empty
    events,                 \* what the step just taken did, in order: signals
                            \* received, collaborator calls, messages notified
    dispatched,             \* posts process_new_post was called with for new_posts, in order
    last_mark,              \* the mark_post_commented call of the step just taken, if any
    sent,                   \* messages the step just taken handed to send_message, and what became of them
    stored_mains,           \* usernames of the main accounts enabled in config.json
    delay,                  \* the pacing delay slept in the step just taken, if any
    logins,                 \* the logins the step just taken tried, in order, and how each went
    autoposter_processes,   \* ControllerSpec: autoposter.py processes alive on the machine
    config_json,            \* ControllerSpec: the file config.json
    config_backup,          \* ControllerSpec: the file config.json.backup
    update                  \* ControllerSpec: the Telegram update the step just taken handled

vars ==
    <<pc, enabled_subs, enabled_mains, telegram_enabled, predefined_comments,
      sub_clients, monitoring_client, user_id,
      config_file, ledger, cycle_stats, acct, new_posts, post_idx,
      selected_accounts, commented_successfully, attempts, sleeps, mark_calls,
      cycles, succeeded, reselected, written, rewritten, recent_posts,
      commented_data, posts_to_comment, appended, events, dispatched, last_mark, sent, stored_mains, delay, logins,
      autoposter_processes, config_json, config_backup, update>>

configVars ==
    <<enabled_subs, enabled_mains, telegram_enabled, predefined_comments>>
loginVars == <<sub_clients, monitoring_client>>
dispatchVars ==
    <<selected_accounts, commented_successfully, attempts, sleeps, mark_calls>>
historyVars == <<succeeded, reselected, written, rewritten>>
controllerVars ==
    <<autoposter_processes, config_json, config_backup, update>>
selectionVars == <<recent_posts, commented_data, posts_to_comment, appended>>

\* A mark_post_commented call: its arguments and what became of its save.
MarkCall(username, post_id, post_timestamp, outcome) ==
    [username |-> username, post_id |-> post_id,
     post_timestamp |-> post_timestamp, outcome |-> outcome]

\* The main account the cycle is at.
CurrentAccount == main_accounts[acct]

\* Mutant of CurrentPost: "for post in reversed(new_posts)".
OldestPostFirst == new_posts[Len(new_posts) + 1 - post_idx]

\* The post process_new_post was called with.
CurrentPost == new_posts[post_idx]

\* The state of a freshly constructed InstagramAutoPoster (__init__), given
\* the configuration and the files it finds.
FreshProcess ==
    /\ pc = "login"
    /\ sub_clients = <<>>
    /\ monitoring_client = NoClient
    /\ cycle_stats = ZeroStats
    /\ acct = 1
    /\ new_posts = <<>>
    /\ post_idx = 1
    /\ selected_accounts = <<>>
    /\ commented_successfully = FALSE
    /\ attempts = <<>>
    /\ sleeps = 0
    /\ mark_calls = 0
    /\ events = <<>>
    /\ dispatched = <<>>
    /\ last_mark = <<>>
    /\ sent = <<>>
    /\ delay = <<>>
    /\ logins = <<>>

NoHistory ==
    /\ cycles = 0
    /\ succeeded = {}
    /\ reselected = {}
    /\ written = {}
    /\ rewritten = {}

NoSelection ==
    /\ recent_posts = <<>>
    /\ commented_data = DefaultRecord
    /\ posts_to_comment = <<>>
    /\ appended = <<>>

\* No controller next to the autoposter.
NoController ==
    /\ autoposter_processes = 0
    /\ config_json = AbsentFile
    /\ config_backup = AbsentFile
    /\ update = <<>>

\* A first start: no ledger file yet, no user id resolved. Any of the main
\* accounts and any of the first two sub accounts may be enabled; the third sub
\* account is enabled in DispatchSpec only.
Init ==
    /\ NoController
    /\ FreshProcess
    /\ NoHistory
    /\ NoSelection
    /\ enabled_subs \in SUBSET {sub_accounts[1], sub_accounts[2]}
    /\ enabled_mains \in SUBSET MainNames
    /\ telegram_enabled = FALSE
    /\ predefined_comments = <<Comments[1]>>
    /\ user_id = [m \in MainNames |-> ""]
    /\ config_file = user_id
    /\ ledger = [m \in MainNames |-> AbsentFile]
    /\ stored_mains = enabled_mains

\* --------------------------------------------------------------- the run loop

\* How the try block of login_sub_accounts can go for one sub account:
\*   "restored"  the session file exists, is loaded, the login and the
\*               timeline request succeed;
\*   "fresh"     there is no session file, or the restored session fails the
\*               test; the fresh login succeeds and the session is dumped;
\*   "unsaved"   the fresh login succeeds and dump_settings raises;
\*   "failed"    Client(), or the login that decides, raises.
LoginOutcomes == {"restored", "fresh", "unsaved", "failed"}

\* The try block reaches "self.sub_clients[sub_account.username] = client".
ClientStored(how) == how \in {"restored", "fresh"}

\* The sub accounts of names, in configured order.
InConfiguredOrder(names) == SelectSeq(sub_accounts, LAMBDA u : u \in names)

\* login_sub_accounts: every enabled sub account is tried in configured order;
\* the ones whose try block completes are stored, the first of them monitors;
\* the enabled accounts that are not stored are reported.
LoginSubAccounts ==
    /\ pc = "login"
    /\ \E how \in [enabled_subs -> LoginOutcomes],
          outcome \in send_message(telegram_enabled) :
        LET tried == InConfiguredOrder(enabled_subs)
            clients == InConfiguredOrder(
                           {u \in enabled_subs : ClientStored(how[u])})
            failed_accounts ==
                InConfiguredOrder(enabled_subs \ Range(clients))
        IN /\ logins' = [i \in DOMAIN tried |->
                            [username |-> tried[i], how |-> how[tried[i]]]]
           /\ sub_clients' = clients
           /\ monitoring_client' =
                IF clients = <<>> THEN NoClient ELSE clients[1]
           /\ events' = send_login_issues(Range(failed_accounts))
           /\ sent' = IF failed_accounts = <<>>
                      THEN <<>>
                      ELSE <<[message |-> [kind |-> "login_issues",
                                           failed_accounts |-> failed_accounts],
                              outcome |-> outcome]>>
    /\ pc' = "startup"
    /\ last_mark' = <<>>
    /\ delay' = <<>>
    /\ UNCHANGED <<configVars, user_id, config_file, ledger, cycle_stats, acct,
                   new_posts, post_idx, dispatchVars, cycles, historyVars,
                   selectionVars, dispatched, stored_mains, controllerVars>>

\* Mutant of StartupFails: run() without its two checks after login.
StartupNeverFails(clients, monitor) == FALSE

\* run(): "if not self.sub_clients" and "if not self.monitoring_client".
StartupFails(clients, monitor) == clients = <<>> \/ monitor = NoClient

\* run(): the two checks after login; when either fails the startup error is
\* notified and run returns, otherwise the startup is notified.
StartupCheck ==
    /\ pc = "startup"
    /\ IF StartupFails(sub_clients, monitoring_client)
       THEN /\ pc' = "exited"
            /\ events' = send_error_notification("Startup Error")
       ELSE /\ pc' = "cycle"
            /\ events' = send_startup_notification
    /\ last_mark' = <<>>
    /\ sent' = <<>>
    /\ delay' = <<>>
    /\ logins' = <<>>
    /\ UNCHANGED <<configVars, loginVars, user_id, config_file, ledger,
                   cycle_stats, acct, new_posts, post_idx, dispatchVars, cycles,
                   historyVars, selectionVars, dispatched, stored_mains,
                   controllerVars>>

\* monitor_accounts, up to its loop: the statistics are reset.
BeginCycle ==
    /\ pc = "cycle"
    /\ cycles < MaxCycles
    /\ cycles' = cycles + 1
    /\ cycle_stats' = ZeroStats
    /\ acct' = 1
    /\ new_posts' = <<>>
    /\ post_idx' = 1
    /\ pc' = "account"
    /\ events' = <<>>
    /\ dispatched' = <<>>
    /\ last_mark' = <<>>
    /\ sent' = <<>>
    /\ delay' = <<>>
    /\ logins' = <<>>
    /\ UNCHANGED <<configVars, loginVars, user_id, config_file, ledger,
                   dispatchVars, historyVars, selectionVars, stored_mains,
                   controllerVars>>

\* monitor_accounts: "if not main_account.enabled: continue".
SkipDisabledAccount ==
    /\ pc = "account"
    /\ acct <= Len(main_accounts)
    /\ CurrentAccount \notin enabled_mains
    /\ acct' = acct + 1
    /\ events' = <<>>
    /\ last_mark' = <<>>
    /\ sent' = <<>>
    /\ delay' = <<>>
    /\ logins' = <<>>
    /\ UNCHANGED <<pc, configVars, loginVars, user_id, config_file, ledger,
                   cycle_stats, new_posts, post_idx, dispatchVars, cycles,
                   historyVars, selectionVars, dispatched, stored_mains,
                   controllerVars>>

\* The statistics after check_new_posts returned n posts for one more account.
CountAccount(stats, n) ==
    [stats EXCEPT !.accounts_checked = @ + 1, !.new_posts_found = @ + n]

\* Mutant of ResolveFails: check_new_posts without its "else: return []", so
\* the fetch and the selection go on with the user id unknown.
ResolveFailsFetches ==
    /\ pc = "account"
    /\ acct <= Len(main_accounts)
    /\ CurrentAccount \in enabled_mains
    /\ user_id[CurrentAccount] = ""
    /\ \E batch \in BoundedSeq(FeedPosts, MaxBatch) :
        LET selection ==
              SelectNewPosts(batch, load_commented_posts(
                  ledger[get_commented_posts_file(CurrentAccount)]))
        IN /\ new_posts' = selection
           /\ cycle_stats' = CountAccount(cycle_stats, Len(selection))
    /\ post_idx' = 1
    /\ pc' = "posts"
    /\ events' = <<"user_id_from_username", "user_medias_v1",
                   "load_commented_posts">>
    /\ dispatched' = <<>>
    /\ last_mark' = <<>>
    /\ sent' = <<>>
    /\ delay' = <<>>
    /\ logins' = <<>>
    /\ UNCHANGED <<configVars, loginVars, user_id, config_file, ledger, acct,
                   dispatchVars, cycles, historyVars, selectionVars,
                   stored_mains, controllerVars>>

\* check_new_posts when the user id is unknown and get_user_id returns None:
\* the empty list is returned before anything is fetched.
ResolveFails ==
    /\ pc = "account"
    /\ acct <= Len(main_accounts)
    /\ CurrentAccount \in enabled_mains
    /\ user_id[CurrentAccount] = ""
    /\ cycle_stats' = CountAccount(cycle_stats, 0)
    /\ new_posts' = <<>>
    /\ post_idx' = 1
    /\ pc' = "posts"
    /\ events' = <<"user_id_from_username">>
    /\ dispatched' = <<>>
    /\ last_mark' = <<>>
    /\ sent' = <<>>
    /\ delay' = <<>>
    /\ logins' = <<>>
    /\ UNCHANGED <<configVars, loginVars, user_id, config_file, ledger, acct,
                   dispatchVars, cycles, historyVars, selectionVars,
                   stored_mains, controllerVars>>

\* Mutant of ResolveSaveRaises: the try/except around the loop of
\* monitor_accounts instead of inside it, so the exception ends the loop.
ResolveSaveBreaks ==
    /\ pc = "account"
    /\ acct <= Len(main_accounts)
    /\ CurrentAccount \in enabled_mains
    /\ user_id[CurrentAccount] = ""
    /\ user_id' = [user_id EXCEPT ![CurrentAccount] = CurrentAccount]
    /\ cycle_stats' = [cycle_stats EXCEPT !.accounts_checked = @ + 1]
    /\ acct' = Len(main_accounts) + 1
    /\ events' = <<"user_id_from_username", "save_config", "Monitoring Error">>
    /\ last_mark' = <<>>
    /\ sent' = <<>>
    /\ delay' = <<>>
    /\ logins' = <<>>
    /\ UNCHANGED <<pc, configVars, loginVars, config_file, ledger, new_posts,
                   post_idx, dispatchVars, cycles, historyVars, selectionVars,
                   dispatched, stored_mains, controllerVars>>

\* check_new_posts when the user id is resolved and save_config raises: the id
\* stays in memory, the exception reaches the handler of monitor_accounts and
\* the loop goes on with the next account.
ResolveSaveRaises ==
    /\ pc = "account"
    /\ acct <= Len(main_accounts)
    /\ CurrentAccount \in enabled_mains
    /\ user_id[CurrentAccount] = ""
    /\ user_id' = [user_id EXCEPT ![CurrentAccount] = CurrentAccount]
    /\ cycle_stats' = [cycle_stats EXCEPT !.accounts_checked = @ + 1]
    /\ acct' = acct + 1
    /\ events' = <<"user_id_from_username", "save_config">>
                   \o send_error_notification("Monitoring Error")
    /\ last_mark' = <<>>
    /\ sent' = <<>>
    /\ delay' = <<>>
    /\ logins' = <<>>
    /\ UNCHANGED <<pc, configVars, loginVars, config_file, ledger, new_posts,
                   post_idx, dispatchVars, cycles, historyVars, selectionVars,
                   dispatched, stored_mains, controllerVars>>

\* Mutant of NeedsResolution: the id is looked up in every call.
AlwaysResolves(id) == TRUE

\* check_new_posts: "if not main_account.user_id".
NeedsResolution(id) == id = ""

\* Mutant of get_recent_posts: the posts come back although the call raised.
PostsDespiteFailure(client, batch, raised) == batch

\* get_recent_posts: the posts user_medias_v1 returns; the empty list when
\* there is no monitoring client or the call raises.
get_recent_posts(client, batch, raised) ==
    IF client = NoClient \/ raised THEN <<>> ELSE batch

\* check_new_posts on its main path: the user id is known or is resolved and
\* saved, the posts are fetched (batch is what the account shows, raised
\* whether user_medias_v1 fails), the ledger is loaded and the selection is
\* returned to monitor_accounts.
CheckNewPosts ==
    /\ pc = "account"
    /\ acct <= Len(main_accounts)
    /\ CurrentAccount \in enabled_mains
    /\ user_id' = [user_id EXCEPT ![CurrentAccount] = CurrentAccount]
    /\ config_file' =
         IF NeedsResolution(user_id[CurrentAccount])
         THEN user_id'
         ELSE config_file
    /\ \E batch \in BoundedSeq(FeedPosts, MaxBatch), raised \in BOOLEAN :
        LET selection ==
              SelectNewPosts(get_recent_posts(monitoring_client, batch, raised),
                             load_commented_posts(
                  ledger[get_commented_posts_file(CurrentAccount)]))
        IN /\ new_posts' = selection
           /\ cycle_stats' = CountAccount(cycle_stats, Len(selection))
           /\ reselected' = reselected \cup
                ({<<CurrentAccount, selection[i].pk>> : i \in DOMAIN selection}
                 \cap succeeded)
           /\ events' = (IF NeedsResolution(user_id[CurrentAccount])
                        THEN <<"user_id_from_username", "save_config">>
                        ELSE <<>>)
                       \o <<"user_medias_v1">>
                       \o (IF raised THEN <<"Failed to get posts">> ELSE <<>>)
                       \o <<"load_commented_posts">>
    /\ post_idx' = 1
    /\ pc' = "posts"
    /\ dispatched' = <<>>
    /\ last_mark' = <<>>
    /\ sent' = <<>>
    /\ stored_mains' = IF NeedsResolution(user_id[CurrentAccount])
                     THEN enabled_mains
                     ELSE stored_mains
    /\ delay' = <<>>
    /\ logins' = <<>>
    /\ UNCHANGED <<configVars, loginVars, ledger, acct, dispatchVars, cycles,
                   succeeded, written, rewritten, selectionVars,
                   controllerVars>>

\* process_new_post up to its loop: the available accounts are computed; with
\* none the call returns, otherwise the commenting accounts are sampled.
ProcessNewPost ==
    /\ pc = "posts"
    /\ post_idx <= Len(new_posts)
    /\ attempts' = <<>>
    /\ sleeps' = 0
    /\ mark_calls' = 0
    /\ commented_successfully' = FALSE
    /\ LET available == AvailableSubAccounts(sub_clients, enabled_subs)
       IN IF available = <<>>
          THEN /\ selected_accounts' = <<>>
               /\ post_idx' = post_idx + 1
               /\ pc' = "posts"
          ELSE /\ selected_accounts' \in
                    RandomSamples(available, SampleSize(available))
               /\ post_idx' = post_idx
               /\ pc' = "comment"
    /\ events' = <<>>
    /\ dispatched' = Append(dispatched, CurrentPost)
    /\ last_mark' = <<>>
    /\ sent' = <<>>
    /\ delay' = <<>>
    /\ logins' = <<>>
    /\ UNCHANGED <<configVars, loginVars, user_id, config_file, ledger,
                   cycle_stats, acct, new_posts, cycles, historyVars, selectionVars,
                   stored_mains, controllerVars>>

\* Mutant of CountComment: a failure is counted and the success is counted
\* all the same, as with the increment of successful_comments moved after
\* the try block.
CountedTwice(stats, result) ==
    IF result
    THEN [stats EXCEPT !.successful_comments = @ + 1]
    ELSE [stats EXCEPT !.successful_comments = @ + 1, !.failed_comments = @ + 1]

\* The statistics after one comment_on_post call that reached its try block.
CountComment(stats, result) ==
    IF result
    THEN [stats EXCEPT !.successful_comments = @ + 1]
    ELSE [stats EXCEPT !.failed_comments = @ + 1]

\* Mutant of CommentOnPostWith: a comment counts as posted only when its
\* notification was delivered.
SuccessNeedsDelivery(enabled) ==
    /\ pc = "comment"
    /\ ~LoopDone(attempts, selected_accounts)
    /\ sleeps' = sleeps + 1
    /\ LET username == selected_accounts[Len(attempts) + 1]
           texts == IF username \in Range(sub_clients)
                    THEN select_random_comment(predefined_comments)
                    ELSE {}
       IN \E comment_text \in (IF texts = {} THEN {NoText} ELSE texts) :
          \E result \in (IF comment_text = NoText THEN {FALSE} ELSE BOOLEAN) :
          \E notified \in (IF result
                           THEN select_random_comment(predefined_comments)
                           ELSE {NoText}) :
          \E outcome \in send_message(enabled) :
          \E seconds \in random_randint(comment_delay_range[1],
                                        comment_delay_range[2]) :
            /\ delay' = <<seconds>>
            /\ attempts' = Append(attempts, [username |-> username,
                                             result |-> result,
                                             comment |-> comment_text])
            /\ cycle_stats' = IF username \in Range(sub_clients)
                               THEN CountComment(cycle_stats, result)
                               ELSE cycle_stats
            /\ commented_successfully' =
                 (commented_successfully \/ (result /\ outcome = "delivered"))
            /\ events' =
                 <<"time.sleep">>
                 \o (IF comment_text /= NoText THEN <<"media_comment">> ELSE <<>>)
                 \o (IF result THEN <<"comment_success">> ELSE <<"comment_failure">>)
            /\ sent' =
                 <<[message |->
                      IF result
                      THEN send_comment_success(CurrentAccount, CurrentPost,
                                                notified, username)
                      ELSE send_comment_failure(CurrentAccount, CurrentPost,
                                                username),
                    outcome |-> outcome]>>
    /\ last_mark' = <<>>
    /\ logins' = <<>>
    /\ UNCHANGED <<pc, configVars, loginVars, user_id, config_file, ledger, acct,
                   new_posts, post_idx, selected_accounts, mark_calls, cycles,
                   historyVars, selectionVars, dispatched,
                   stored_mains, controllerVars>>

\* One iteration of the loop of process_new_post, with a notifier whose
\* enabled flag is as given: the pacing sleep, then comment_on_post, which
\* draws a comment and posts it and returns True, or catches the failure (the
\* account is not logged in, no comment is predefined, media_comment raises)
\* and returns False, then the notification of the outcome, with a comment
\* drawn anew on success. The attempt of an account that is not logged in
\* returns before the statistics are touched.
CommentOnPostWith(enabled) ==
    /\ pc = "comment"
    /\ ~LoopDone(attempts, selected_accounts)
    /\ sleeps' = sleeps + 1
    /\ LET username == selected_accounts[Len(attempts) + 1]
           texts == IF username \in Range(sub_clients)
                    THEN select_random_comment(predefined_comments)
                    ELSE {}
       IN \E comment_text \in (IF texts = {} THEN {NoText} ELSE texts) :
          \E result \in (IF comment_text = NoText THEN {FALSE} ELSE BOOLEAN) :
          \E notified \in (IF result
                           THEN select_random_comment(predefined_comments)
                           ELSE {NoText}) :
          \E outcome \in send_message(enabled) :
          \E seconds \in random_randint(comment_delay_range[1],
                                        comment_delay_range[2]) :
            /\ delay' = <<seconds>>
            /\ attempts' = Append(attempts, [username |-> username,
                                             result |-> result,
                                             comment |-> comment_text])
            /\ cycle_stats' = IF username \in Range(sub_clients)
                               THEN CountComment(cycle_stats, result)
                               ELSE cycle_stats
            /\ commented_successfully' = (commented_successfully \/ result)
            /\ events' =
                 <<"time.sleep">>
                 \o (IF comment_text /= NoText THEN <<"media_comment">> ELSE <<>>)
                 \o (IF result THEN <<"comment_success">> ELSE <<"comment_failure">>)
            /\ sent' =
                 <<[message |->
                      IF result
                      THEN send_comment_success(CurrentAccount, CurrentPost,
                                                notified, username)
                      ELSE send_comment_failure(CurrentAccount, CurrentPost,
                                                username),
                    outcome |-> outcome]>>
    /\ last_mark' = <<>>
    /\ logins' = <<>>
    /\ UNCHANGED <<pc, configVars, loginVars, user_id, config_file, ledger, acct,
                   new_posts, post_idx, selected_accounts, mark_calls, cycles,
                   historyVars, selectionVars, dispatched,
                   stored_mains, controllerVars>>

\* The iteration with the notifier as __init__ built it from the configuration.
CommentOnPost == CommentOnPostWith(telegram_enabled)

\* Mutant of FinishPost: the posts of new_posts still to be dispatched are
\* selected anew against the ledger as the call leaves it.
FinishPostRechecks ==
    /\ pc = "comment"
    /\ LoopDone(attempts, selected_accounts)
    /\ LET key == <<CurrentAccount, CurrentPost.pk>>
       IN IF ShouldMark(commented_successfully)
          THEN \E outcome \in SaveOutcomes :
                /\ ledger' = [ledger EXCEPT ![get_commented_posts_file(CurrentAccount)] =
                       mark_post_commented(@, CurrentPost.pk,
                                           CurrentPost.taken_at, outcome)]
                /\ mark_calls' = mark_calls + 1
                /\ last_mark' = <<MarkCall(CurrentAccount, CurrentPost.pk,
                                           CurrentPost.taken_at, outcome)>>
                /\ written' = IF outcome = "ok" THEN written \cup {key} ELSE written
                /\ rewritten' = IF outcome = "ok" /\ key \in written
                                THEN rewritten \cup {key} ELSE rewritten
          ELSE /\ last_mark' = <<>>
               /\ UNCHANGED <<ledger, mark_calls, written, rewritten>>
    /\ succeeded' = IF commented_successfully
                    THEN succeeded \cup {<<CurrentAccount, CurrentPost.pk>>}
                    ELSE succeeded
    /\ post_idx' = post_idx + 1
    /\ new_posts' =
         SubSeq(new_posts, 1, post_idx)
         \o SelectNewPosts(
                SubSeq(new_posts, post_idx + 1, Len(new_posts)),
                load_commented_posts(
                    ledger'[get_commented_posts_file(CurrentAccount)]))
    /\ pc' = "posts"
    /\ events' = IF ShouldMark(commented_successfully)
               THEN <<"mark_post_commented">>
               ELSE <<>>
    /\ sent' = <<>>
    /\ delay' = <<>>
    /\ logins' = <<>>
    /\ UNCHANGED <<configVars, loginVars, user_id, config_file, cycle_stats, acct,
                   selected_accounts, commented_successfully, attempts,
                   sleeps, cycles, reselected, selectionVars, dispatched,
                   stored_mains, controllerVars>>

\* The end of process_new_post: the post is marked when a comment succeeded,
\* and the call returns to the loop over new_posts.
FinishPost ==
    /\ pc = "comment"
    /\ LoopDone(attempts, selected_accounts)
    /\ LET key == <<CurrentAccount, CurrentPost.pk>>
       IN IF ShouldMark(commented_successfully)
          THEN \E outcome \in SaveOutcomes :
                /\ ledger' = [ledger EXCEPT ![get_commented_posts_file(CurrentAccount)] =
                       mark_post_commented(@, CurrentPost.pk,
                                           CurrentPost.taken_at, outcome)]
                /\ mark_calls' = mark_calls + 1
                /\ last_mark' = <<MarkCall(CurrentAccount, CurrentPost.pk,
                                           CurrentPost.taken_at, outcome)>>
                /\ written' = IF outcome = "ok" THEN written \cup {key} ELSE written
                /\ rewritten' = IF outcome = "ok" /\ key \in written
                                THEN rewritten \cup {key} ELSE rewritten
          ELSE /\ last_mark' = <<>>
               /\ UNCHANGED <<ledger, mark_calls, written, rewritten>>
    /\ succeeded' = IF commented_successfully
                    THEN succeeded \cup {<<CurrentAccount, CurrentPost.pk>>}
                    ELSE succeeded
    /\ post_idx' = post_idx + 1
    /\ pc' = "posts"
    /\ events' = IF ShouldMark(commented_successfully)
               THEN <<"mark_post_commented">>
               ELSE <<>>
    /\ sent' = <<>>
    /\ delay' = <<>>
    /\ logins' = <<>>
    /\ UNCHANGED <<configVars, loginVars, user_id, config_file, cycle_stats, acct,
                   new_posts, selected_accounts, commented_successfully, attempts,
                   sleeps, cycles, reselected, selectionVars, dispatched,
                   stored_mains, controllerVars>>

\* monitor_accounts: every post of new_posts was processed; next account.
NextAccount ==
    /\ pc = "posts"
    /\ post_idx > Len(new_posts)
    /\ acct' = acct + 1
    /\ pc' = "account"
    /\ events' = <<>>
    /\ last_mark' = <<>>
    /\ sent' = <<>>
    /\ delay' = <<>>
    /\ logins' = <<>>
    /\ UNCHANGED <<configVars, loginVars, user_id, config_file, ledger,
                   cycle_stats, new_posts, post_idx, dispatchVars, cycles,
                   historyVars, selectionVars, dispatched, stored_mains,
                   controllerVars>>

\* The end of monitor_accounts: the cycle summary; back in the loop of run().
EndCycle ==
    /\ pc = "account"
    /\ acct > Len(main_accounts)
    /\ pc' = "sleep"
    /\ events' = send_monitoring_cycle_summary(cycle_stats)
    /\ last_mark' = <<>>
    /\ sent' = <<>>
    /\ delay' = <<>>
    /\ logins' = <<>>
    /\ UNCHANGED <<configVars, loginVars, user_id, config_file, ledger,
                   cycle_stats, acct, new_posts, post_idx, dispatchVars, cycles,
                   historyVars, selectionVars, dispatched, stored_mains,
                   controllerVars>>

\* Mutant of Sleep: run() with an "if" in place of "while True", which returns
\* after the first cycle and its sleep.
SleepOnce ==
    /\ pc = "sleep"
    /\ pc' = "exited"
    /\ events' = <<"time.sleep">>
    /\ last_mark' = <<>>
    /\ sent' = <<>>
    /\ delay' = <<>>
    /\ logins' = <<>>
    /\ UNCHANGED <<configVars, loginVars, user_id, config_file, ledger,
                   cycle_stats, acct, new_posts, post_idx, dispatchVars, cycles,
                   historyVars, selectionVars, dispatched, stored_mains,
                   controllerVars>>

\* run(): time.sleep(check_interval), then the next iteration.
Sleep ==
    /\ pc = "sleep"
    /\ pc' = "cycle"
    /\ events' = <<"time.sleep">>
    /\ last_mark' = <<>>
    /\ sent' = <<>>
    /\ delay' = <<>>
    /\ logins' = <<>>
    /\ UNCHANGED <<configVars, loginVars, user_id, config_file, ledger,
                   cycle_stats, acct, new_posts, post_idx, dispatchVars, cycles,
                   historyVars, selectionVars, dispatched, stored_mains,
                   controllerVars>>

\* run(): KeyboardInterrupt (Ctrl+C, SIGINT) is raised wherever the main
\* thread stands, the handler sends the shutdown notification and run returns.
KeyboardInterrupt ==
    /\ pc \notin {"exited"}
    /\ pc' = "exited"
    /\ events' = <<"KeyboardInterrupt">> \o send_shutdown_notification
    /\ last_mark' = <<>>
    /\ sent' = <<>>
    /\ delay' = <<>>
    /\ logins' = <<>>
    /\ UNCHANGED <<configVars, loginVars, user_id, config_file, ledger,
                   cycle_stats, acct, new_posts, post_idx, dispatchVars, cycles,
                   historyVars, selectionVars, dispatched, stored_mains,
                   controllerVars>>

\* SIGTERM, which "pkill -f autoposter.py" of the controller and "systemctl
\* stop" send: no handler is installed, the process ends where it stands and
\* nothing is notified.
SIGTERM ==
    /\ pc \notin {"exited"}
    /\ pc' = "exited"
    /\ events' = <<"SIGTERM">>
    /\ last_mark' = <<>>
    /\ sent' = <<>>
    /\ delay' = <<>>
    /\ logins' = <<>>
    /\ UNCHANGED <<configVars, loginVars, user_id, config_file, ledger,
                   cycle_stats, acct, new_posts, post_idx, dispatchVars, cycles,
                   historyVars, selectionVars, dispatched, stored_mains,
                   controllerVars>>

\* Mutant of CriticalError: the "except Exception" inside "while True", so the
\* loop goes on after the two notifications.
CriticalErrorResumes ==
    /\ pc = "sleep"
    /\ pc' = "cycle"
    /\ events' = <<"Critical Error", "shutdown">>
    /\ last_mark' = <<>>
    /\ sent' = <<>>
    /\ delay' = <<>>
    /\ logins' = <<>>
    /\ UNCHANGED <<configVars, loginVars, user_id, config_file, ledger,
                   cycle_stats, acct, new_posts, post_idx, dispatchVars, cycles,
                   historyVars, selectionVars, dispatched, stored_mains,
                   controllerVars>>

\* run(): an exception raised in the loop outside monitor_accounts' handler
\* (time.sleep rejecting the check_interval of config.json) reaches "except
\* Exception": the critical error and the shutdown are notified, run returns.
CriticalError ==
    /\ pc = "sleep"
    /\ pc' = "exited"
    /\ events' = send_error_notification("Critical Error")
                 \o send_shutdown_notification
    /\ last_mark' = <<>>
    /\ sent' = <<>>
    /\ delay' = <<>>
    /\ logins' = <<>>
    /\ UNCHANGED <<configVars, loginVars, user_id, config_file, ledger,
                   cycle_stats, acct, new_posts, post_idx, dispatchVars, cycles,
                   historyVars, selectionVars, dispatched, stored_mains,
                   controllerVars>>

\* main() again after the process ended: a new ConfigManager reads config.json,
\* a new InstagramAutoPoster starts with nothing in memory; the files stay.
Restart ==
    /\ pc = "exited"
    /\ cycles < MaxCycles
    /\ pc' = "login"
    /\ sub_clients' = <<>>
    /\ monitoring_client' = NoClient
    /\ user_id' = config_file
    /\ cycle_stats' = ZeroStats
    /\ acct' = 1
    /\ new_posts' = <<>>
    /\ post_idx' = 1
    /\ selected_accounts' = <<>>
    /\ commented_successfully' = FALSE
    /\ attempts' = <<>>
    /\ sleeps' = 0
    /\ mark_calls' = 0
    /\ events' = <<>>
    /\ dispatched' = <<>>
    /\ last_mark' = <<>>
    /\ sent' = <<>>
    /\ enabled_mains' = stored_mains
    /\ delay' = <<>>
    /\ logins' = <<>>
    /\ UNCHANGED <<enabled_subs, telegram_enabled, predefined_comments,
                   stored_mains, config_file, ledger, cycles, historyVars,
                   selectionVars, controllerVars>>

Next ==
    \/ LoginSubAccounts
    \/ StartupCheck
    \/ BeginCycle
    \/ SkipDisabledAccount
    \/ ResolveFails
    \/ ResolveSaveRaises
    \/ CheckNewPosts
    \/ ProcessNewPost
    \/ CommentOnPost
    \/ FinishPost
    \/ NextAccount
    \/ EndCycle
    \/ Sleep
    \/ KeyboardInterrupt
    \/ SIGTERM
    \/ CriticalError
    \/ Restart

Spec == Init /\ [][Next]_vars

\* ------------------------------------- the controller replaces config.json

\* The main_accounts settings an uploaded configuration can hold: both main
\* accounts enabled, or the second one disabled.
UploadedConfigs == {MainNames, {main_accounts[1]}}

\* handle_update_config on its successful path, while the autoposter process
\* is wherever it is: config.json is backed up and overwritten with the
\* uploaded document (here one that keeps the stored user ids), and the
\* controller's own ConfigManager is reloaded. The autoposter is not told.
UpdateConfig ==
    /\ \E uploaded \in UploadedConfigs \ {stored_mains} :
        stored_mains' = uploaded
    /\ events' = <<>>
    /\ last_mark' = <<>>
    /\ sent' = <<>>
    /\ delay' = <<>>
    /\ logins' = <<>>
    /\ UNCHANGED <<pc, configVars, loginVars, user_id, config_file, ledger,
                   cycle_stats, acct, new_posts, post_idx, dispatchVars, cycles,
                   historyVars, selectionVars, dispatched, controllerVars>>

\* An autoposter started with one sub account and both main accounts enabled,
\* next to a controller.
ConfigInit ==
    /\ Init
    /\ enabled_subs = {sub_accounts[1]}
    /\ enabled_mains = MainNames

ConfigNext ==
    \/ Next
    \/ UpdateConfig

ConfigSpec == ConfigInit /\ [][ConfigNext]_vars

\* ------------------------------------------- the dispatch of one post, alone

\* process_new_post called once, on any post, by an object whose logged-in
\* accounts and whose enabled flags are arbitrary.
DispatchInit ==
    /\ NoController
    /\ NoHistory
    /\ NoSelection
    /\ pc = "posts"
    /\ enabled_subs \in SUBSET SubNames
    /\ enabled_mains = MainNames
    /\ telegram_enabled \in BOOLEAN
    /\ predefined_comments \in {SubSeq(Comments, 1, n) : n \in 0..Len(Comments)}
    /\ \E logged \in SUBSET SubNames :
        sub_clients = SelectSeq(sub_accounts, LAMBDA u : u \in logged)
    /\ monitoring_client = IF sub_clients = <<>> THEN NoClient ELSE sub_clients[1]
    /\ user_id = [m \in MainNames |-> m]
    /\ config_file = user_id
    /\ ledger = [m \in MainNames |-> AbsentFile]
    /\ cycle_stats = ZeroStats
    /\ acct = 1
    /\ \E post \in FeedPosts : new_posts = <<post>>
    /\ post_idx = 1
    /\ selected_accounts = <<>>
    /\ commented_successfully = FALSE
    /\ attempts = <<>>
    /\ sleeps = 0
    /\ mark_calls = 0
    /\ events = <<>>
    /\ dispatched = <<>>
    /\ last_mark = <<>>
    /\ sent = <<>>
    /\ stored_mains = enabled_mains
    /\ delay = <<>>
    /\ logins = <<>>

DispatchNext ==
    \/ ProcessNewPost
    \/ CommentOnPost
    \/ FinishPost

DispatchSpec == DispatchInit /\ [][DispatchNext]_vars

\* -------------------------------------- the ledger and the selection, alone

\* The main account whose ledger SelectSpec and LedgerSpec work on.
LedgerAccount == main_accounts[1]

\* The file after mark_post_commented was called for each post of a sequence of
\* distinct posts in turn, starting with no file, every save succeeding: the
\* last post's id and timestamp, and the ids in order, cut to the cap.
MarkedFile(posts) ==
    IF posts = <<>> THEN AbsentFile
    ELSE OkFile(
        [last_commented_post_id |-> posts[Len(posts)].pk,
         last_commented_timestamp |-> posts[Len(posts)].taken_at,
         commented_post_ids |->
            LastN([i \in 1..Len(posts) |-> posts[i].pk], MaxCommentedIds)])

\* The ids appended since the record last read as empty, after one more
\* mark_post_commented call.
AppendedAfter(log, file, post_id, outcome) ==
    LET base == IF file.state = "ok" THEN log ELSE <<>>
        ids == load_commented_posts(file).commented_post_ids
    IN IF outcome = "ok"
       THEN IF post_id \in Range(ids) THEN base ELSE Append(base, post_id)
       ELSE IF outcome = "torn" THEN <<>>
       ELSE log

\* mark_post_commented called with any post, between two check_new_posts calls.
MarkPost ==
    /\ pc = "idle"
    /\ \E post \in LedgerPosts, outcome \in SaveOutcomes :
        /\ ledger' = [ledger EXCEPT ![get_commented_posts_file(LedgerAccount)] =
               mark_post_commented(@, post.pk, post.taken_at, outcome)]
        /\ appended' = AppendedAfter(appended, ledger[LedgerAccount], post.pk, outcome)
        /\ last_mark' = <<MarkCall(LedgerAccount, post.pk, post.taken_at, outcome)>>
    /\ events' = <<>>
    /\ sent' = <<>>
    /\ delay' = <<>>
    /\ logins' = <<>>
    /\ UNCHANGED <<pc, configVars, loginVars, user_id, config_file, cycle_stats,
                   acct, new_posts, post_idx, dispatchVars, cycles, historyVars,
                   recent_posts, commented_data, posts_to_comment, dispatched,
                   stored_mains, controllerVars>>

\* check_new_posts from the fetch on: any batch, the ledger as stored.
SelectPosts ==
    /\ pc = "idle"
    /\ \E batch \in BoundedSeq(LedgerPosts, MaxBatch) :
        /\ recent_posts' = batch
        /\ commented_data' = load_commented_posts(
                              ledger[get_commented_posts_file(LedgerAccount)])
        /\ posts_to_comment' = SelectNewPosts(batch, commented_data')
    /\ pc' = "selected"
    /\ events' = <<>>
    /\ last_mark' = <<>>
    /\ sent' = <<>>
    /\ delay' = <<>>
    /\ logins' = <<>>
    /\ UNCHANGED <<configVars, loginVars, user_id, config_file, ledger,
                   cycle_stats, acct, new_posts, post_idx, dispatchVars, cycles,
                   historyVars, appended, dispatched, stored_mains,
                   controllerVars>>

\* The caller is done with the selection: the locals of the call are gone.
DropSelection ==
    /\ pc = "selected"
    /\ recent_posts' = <<>>
    /\ commented_data' = DefaultRecord
    /\ posts_to_comment' = <<>>
    /\ pc' = "idle"
    /\ events' = <<>>
    /\ last_mark' = <<>>
    /\ sent' = <<>>
    /\ delay' = <<>>
    /\ logins' = <<>>
    /\ UNCHANGED <<configVars, loginVars, user_id, config_file, ledger,
                   cycle_stats, acct, new_posts, post_idx, dispatchVars, cycles,
                   historyVars, appended, dispatched, stored_mains,
                   controllerVars>>

\* The parts of the state SelectSpec and LedgerSpec leave at rest.
AtRest ==
    /\ NoHistory
    /\ pc = "idle"
    /\ enabled_subs = SubNames
    /\ enabled_mains = MainNames
    /\ telegram_enabled = FALSE
    /\ predefined_comments = <<Comments[1]>>
    /\ sub_clients = <<>>
    /\ monitoring_client = NoClient
    /\ user_id = [m \in MainNames |-> m]
    /\ config_file = user_id
    /\ cycle_stats = ZeroStats
    /\ acct = 1
    /\ new_posts = <<>>
    /\ post_idx = 1
    /\ selected_accounts = <<>>
    /\ commented_successfully = FALSE
    /\ attempts = <<>>
    /\ sleeps = 0
    /\ mark_calls = 0
    /\ recent_posts = <<>>
    /\ commented_data = DefaultRecord
    /\ posts_to_comment = <<>>
    /\ events = <<>>
    /\ dispatched = <<>>
    /\ last_mark = <<>>
    /\ sent = <<>>
    /\ stored_mains = enabled_mains
    /\ delay = <<>>
    /\ logins = <<>>

\* The selection on every ledger that mark_post_commented calls produce from
\* no file at all.
SelectInit ==
    /\ NoController
    /\ AtRest
    /\ ledger = [m \in MainNames |-> AbsentFile]
    /\ appended = <<>>

SelectNext ==
    \/ MarkPost
    \/ SelectPosts
    \/ DropSelection

SelectSpec == SelectInit /\ [][SelectNext]_vars

\* --------------------------------- one account of one cycle, batch in sight

\* monitor_accounts: "new_posts = self.check_new_posts(main_account)", the
\* selection is counted and handed to the loop over new_posts.
ReturnSelection ==
    /\ pc = "selected"
    /\ new_posts' = posts_to_comment
    /\ post_idx' = 1
    /\ cycle_stats' = CountAccount(cycle_stats, Len(posts_to_comment))
    /\ dispatched' = <<>>
    /\ events' = <<>>
    /\ pc' = "posts"
    /\ last_mark' = <<>>
    /\ sent' = <<>>
    /\ delay' = <<>>
    /\ logins' = <<>>
    /\ UNCHANGED <<configVars, loginVars, user_id, config_file, ledger, acct,
                   dispatchVars, cycles, historyVars, selectionVars,
                   stored_mains, controllerVars>>

\* The first main account about to be processed by an object with two sub
\* accounts logged in and enabled; its ledger is absent, unreadable, or holds
\* any one post.
AccountInit ==
    /\ NoController
    /\ NoHistory
    /\ pc = "idle"
    /\ enabled_subs = {sub_accounts[1], sub_accounts[2]}
    /\ enabled_mains = MainNames
    /\ telegram_enabled = FALSE
    /\ predefined_comments = <<Comments[1]>>
    /\ sub_clients = <<sub_accounts[1], sub_accounts[2]>>
    /\ monitoring_client = sub_accounts[1]
    /\ user_id = [m \in MainNames |-> m]
    /\ config_file = user_id
    /\ \E file \in {AbsentFile, CorruptFile}
                     \cup {MarkedFile(<<post>>) : post \in LedgerPosts} :
        ledger = [m \in MainNames |->
                    IF m = LedgerAccount THEN file ELSE AbsentFile]
    /\ cycle_stats = ZeroStats
    /\ acct = 1
    /\ new_posts = <<>>
    /\ post_idx = 1
    /\ selected_accounts = <<>>
    /\ commented_successfully = FALSE
    /\ attempts = <<>>
    /\ sleeps = 0
    /\ mark_calls = 0
    /\ NoSelection
    /\ events = <<>>
    /\ dispatched = <<>>
    /\ last_mark = <<>>
    /\ sent = <<>>
    /\ stored_mains = enabled_mains
    /\ delay = <<>>
    /\ logins = <<>>

AccountNext ==
    \/ SelectPosts
    \/ ReturnSelection
    \/ ProcessNewPost
    \/ CommentOnPost
    \/ FinishPost

AccountSpec == AccountInit /\ [][AccountNext]_vars

\* The ledgers LedgerSpec starts from: no post or one post marked, then none,
\* cap - 1 or cap filler posts marked.
LedgerInit ==
    /\ NoController
    /\ AtRest
    /\ \E first \in {<<>>} \cup {<<post>> : post \in LedgerPosts},
          k \in {0, MaxCommentedIds - 1, MaxCommentedIds} :
        LET posts == first \o [i \in 1..k |-> FillerPost(i)]
        IN /\ ledger = [m \in MainNames |->
                          IF m = LedgerAccount THEN MarkedFile(posts)
                          ELSE AbsentFile]
           /\ appended = [i \in 1..Len(posts) |-> posts[i].pk]

LedgerNext == MarkPost

LedgerSpec == LedgerInit /\ [][LedgerNext]_vars

\* -------------------------------------------------------------- controller

\* Chat ids as the controller compares them, after str().
ChatIds == {"owner", "stranger"}

\* self.authorized_chat_ids: the telegram_chat_id of config.json.
authorized_chat_ids == {"owner"}

\* Mutant of is_authorized: every chat is let in.
EveryoneAuthorized(chat_id) == TRUE

\* is_authorized
is_authorized(chat_id) == chat_id \in authorized_chat_ids

\* The texts handle_message tells apart, and one that is no command.
Commands ==
    {"/start", "/status", "/start_bot", "/stop_bot", "/restart_bot", "/config",
     "/logs", "/stats", "/edit_config", "/backup_config", "hello"}

\* The captions handle_document tells apart.
Captions == {"update_config", ""}

\* A JSON document holding a configuration with these main accounts enabled.
ConfigDocument(mains) == [usable |-> TRUE, main_accounts |-> mains]

\* A JSON document _load_config cannot build a Config from (a list, a number,
\* accounts with unknown keys): the loader falls back to the default.
NotAConfig == [usable |-> FALSE, main_accounts |-> {}]

\* The documents a chat can upload that json.loads accepts.
Uploads == {ConfigDocument(mains) : mains \in UploadedConfigs} \cup {NotAConfig}

\* A text message or a document message, as run() receives it.
TextUpdate(chat_id, text) ==
    [chat_id |-> chat_id, text |-> text, document |-> <<>>]
DocumentUpdate(chat_id, caption, uploaded) ==
    [chat_id |-> chat_id, text |-> caption, document |-> <<uploaded>>]

\* What pgrep can answer: a match, no match, or it cannot be run.
PgrepOutcomes(processes) ==
    (IF processes > 0 THEN {"found"} ELSE {"none"}) \cup {"raises"}

\* check_autoposter_running: pgrep's return code is 0; False when it raises.
check_autoposter_running(pgrep) == pgrep = "found"

\* pkill -f autoposter.py followed by the handler's sleep: every autoposter is
\* gone, one at least is still there, or pkill cannot be run.
PkillOutcomes == {"stopped", "survived", "raises"}

\* subprocess.Popen followed by the handler's sleep and poll(): the child is
\* running, it has exited already, or Popen raised.
PopenOutcomes == {"running", "exited", "raises"}

\* The processes alive after a pkill.
AfterPkill(processes, pkill) ==
    IF pkill = "stopped" THEN 0 ELSE processes

\* The processes alive after a Popen.
AfterPopen(processes, popen) ==
    IF popen = "running" THEN processes + 1 ELSE processes

\* handle_message and handle_document for a chat that is not authorized: the
\* text message is answered, the document is dropped.
HandleUnauthorized ==
    /\ pc = "idle"
    /\ \E chat_id \in ChatIds :
        /\ ~is_authorized(chat_id)
        /\ \/ \E text \in Commands :
                /\ update' = <<TextUpdate(chat_id, text)>>
                /\ events' = <<"Unauthorized access">>
           \/ \E caption \in Captions, uploaded \in Uploads :
                /\ update' = <<DocumentUpdate(chat_id, caption, uploaded)>>
                /\ events' = <<>>
    /\ UNCHANGED <<autoposter_processes, config_json, config_backup>>
    /\ last_mark' = <<>>
    /\ sent' = <<>>
    /\ delay' = <<>>
    /\ logins' = <<>>
    /\ UNCHANGED <<pc, configVars, loginVars, user_id, config_file, ledger,
                   cycle_stats, acct, new_posts, post_idx, dispatchVars, cycles,
                   historyVars, selectionVars, dispatched, stored_mains>>

\* What the handlers that start, stop or change nothing do for an authorized
\* chat, in order.
ReportEffects(text) ==
    CASE text = "/start" -> <<"send_message">>
      [] text = "/status" -> <<"pgrep", "send_message">>
      [] text = "/config" -> <<"send_message">>
      [] text = "/logs" -> <<"send_document", "send_message">>
      [] text = "/stats" -> <<"send_message">>
      [] text = "/edit_config" ->
            <<"read config.json", "send_document", "send_message">>
      [] text = "/backup_config" ->
            <<"read config.json", "send_document", "send_message">>
      [] OTHER -> <<"send_message">>

\* handle_message for the commands that report, and handle_document for a
\* document without the update_config caption.
HandleReport ==
    /\ pc = "idle"
    /\ \E chat_id \in ChatIds :
        /\ is_authorized(chat_id)
        /\ \/ \E text \in Commands \ {"/start_bot", "/stop_bot", "/restart_bot"} :
                /\ update' = <<TextUpdate(chat_id, text)>>
                /\ events' = ReportEffects(text)
           \/ \E uploaded \in Uploads :
                /\ update' = <<DocumentUpdate(chat_id, "", uploaded)>>
                /\ events' = <<"send_message">>
    /\ UNCHANGED <<autoposter_processes, config_json, config_backup>>
    /\ last_mark' = <<>>
    /\ sent' = <<>>
    /\ delay' = <<>>
    /\ logins' = <<>>
    /\ UNCHANGED <<pc, configVars, loginVars, user_id, config_file, ledger,
                   cycle_stats, acct, new_posts, post_idx, dispatchVars, cycles,
                   historyVars, selectionVars, dispatched, stored_mains>>

\* handle_start_bot: nothing is launched when check_autoposter_running says
\* one is running.
HandleStartBot ==
    /\ pc = "idle"
    /\ \E chat_id \in ChatIds, pgrep \in PgrepOutcomes(autoposter_processes),
          popen \in PopenOutcomes :
        /\ is_authorized(chat_id)
        /\ update' = <<TextUpdate(chat_id, "/start_bot")>>
        /\ IF check_autoposter_running(pgrep)
           THEN /\ autoposter_processes' = autoposter_processes
                /\ events' = <<"pgrep", "send_message">>
           ELSE /\ autoposter_processes < MaxProcesses
                /\ autoposter_processes' = AfterPopen(autoposter_processes, popen)
                /\ events' = <<"pgrep", "Popen", "send_message">>
    /\ UNCHANGED <<config_json, config_backup>>
    /\ last_mark' = <<>>
    /\ sent' = <<>>
    /\ delay' = <<>>
    /\ logins' = <<>>
    /\ UNCHANGED <<pc, configVars, loginVars, user_id, config_file, ledger,
                   cycle_stats, acct, new_posts, post_idx, dispatchVars, cycles,
                   historyVars, selectionVars, dispatched, stored_mains>>

\* handle_stop_bot: pkill when check_autoposter_running says one is running,
\* then a second look.
HandleStopBot ==
    /\ pc = "idle"
    /\ \E chat_id \in ChatIds, pgrep \in PgrepOutcomes(autoposter_processes),
          pkill \in PkillOutcomes :
        /\ is_authorized(chat_id)
        /\ update' = <<TextUpdate(chat_id, "/stop_bot")>>
        /\ IF ~check_autoposter_running(pgrep)
           THEN /\ autoposter_processes' = autoposter_processes
                /\ events' = <<"pgrep", "send_message">>
           ELSE /\ autoposter_processes' = AfterPkill(autoposter_processes, pkill)
                /\ events' = IF pkill = "raises"
                             THEN <<"pgrep", "pkill", "send_message">>
                             ELSE <<"pgrep", "pkill", "pgrep", "send_message">>
    /\ UNCHANGED <<config_json, config_backup>>
    /\ last_mark' = <<>>
    /\ sent' = <<>>
    /\ delay' = <<>>
    /\ logins' = <<>>
    /\ UNCHANGED <<pc, configVars, loginVars, user_id, config_file, ledger,
                   cycle_stats, acct, new_posts, post_idx, dispatchVars, cycles,
                   historyVars, selectionVars, dispatched, stored_mains>>

\* handle_restart_bot: pkill when check_autoposter_running says one is
\* running, a sleep, then Popen whatever became of the old process. A pkill
\* that cannot be run raises outside the try block and ends the handler.
HandleRestartBot ==
    /\ pc = "idle"
    /\ \E chat_id \in ChatIds, pgrep \in PgrepOutcomes(autoposter_processes),
          pkill \in PkillOutcomes, popen \in PopenOutcomes :
        /\ is_authorized(chat_id)
        /\ update' = <<TextUpdate(chat_id, "/restart_bot")>>
        /\ IF check_autoposter_running(pgrep)
           THEN IF pkill = "raises"
                THEN /\ autoposter_processes' = autoposter_processes
                     /\ events' = <<"send_message", "pgrep", "pkill">>
                ELSE /\ AfterPkill(autoposter_processes, pkill) < MaxProcesses
                     /\ autoposter_processes' =
                          AfterPopen(AfterPkill(autoposter_processes, pkill), popen)
                     /\ events' = <<"send_message", "pgrep", "pkill", "Popen",
                                    "send_message">>
           ELSE /\ autoposter_processes < MaxProcesses
                /\ autoposter_processes' = AfterPopen(autoposter_processes, popen)
                /\ events' = <<"send_message", "pgrep", "Popen", "send_message">>
    /\ UNCHANGED <<config_json, config_backup>>
    /\ last_mark' = <<>>
    /\ sent' = <<>>
    /\ delay' = <<>>
    /\ logins' = <<>>
    /\ UNCHANGED <<pc, configVars, loginVars, user_id, config_file, ledger,
                   cycle_stats, acct, new_posts, post_idx, dispatchVars, cycles,
                   historyVars, selectionVars, dispatched, stored_mains>>

\* An autoposter ends on its own: run() returns at a startup check or after a
\* critical error.
AutoposterExits ==
    /\ pc = "idle"
    /\ autoposter_processes > 0
    /\ autoposter_processes' = autoposter_processes - 1
    /\ update' = <<>>
    /\ events' = <<>>
    /\ UNCHANGED <<config_json, config_backup>>
    /\ last_mark' = <<>>
    /\ sent' = <<>>
    /\ delay' = <<>>
    /\ logins' = <<>>
    /\ UNCHANGED <<pc, configVars, loginVars, user_id, config_file, ledger,
                   cycle_stats, acct, new_posts, post_idx, dispatchVars, cycles,
                   historyVars, selectionVars, dispatched, stored_mains>>

\* What the two requests of handle_update_config can come to: the document is
\* downloaded and parsed; a request is answered with a status other than 200
\* or the text is not JSON (a message, and return); a request raises, or the
\* answer lacks a key (the except clause).
DownloadOutcomes == {"ok", "refused", "raises"}

\* shutil.copy(src, dst): the copy is made, bytes as they are; or it raises,
\* before dst was opened or after it was truncated. With no src it raises.
CopyOutcomes(src, dst) ==
    IF src = AbsentFile
    THEN {[file |-> dst, raised |-> TRUE]}
    ELSE {[file |-> src, raised |-> FALSE],
          [file |-> dst, raised |-> TRUE],
          [file |-> CorruptFile, raised |-> TRUE]}

\* open(path, 'w') and json.dump: written; or raised, before the file was
\* opened or after it was truncated.
WriteOutcomes(file, data) ==
    {[file |-> OkFile(data), raised |-> FALSE],
     [file |-> file, raised |-> TRUE],
     [file |-> CorruptFile, raised |-> TRUE]}

\* The except clause of handle_update_config: the error is sent, then
\* config.json.backup is copied over config.json, whenever it was written;
\* an exception of the copy is passed over.
RestoredFrom(config, backup) ==
    {[config |-> copy.file, backup |-> backup,
      events |-> IF copy.raised
                 THEN <<"send_message", "restore">>
                 ELSE <<"send_message", "restore", "Restored previous config">>] :
        copy \in CopyOutcomes(backup, config)}

\* handle_update_config from the download on: the two files and what was
\* done, for each way the steps can go.
UpdateResults(config, backup, uploaded, download) ==
    IF download = "refused"
    THEN {[config |-> config, backup |-> backup, events |-> <<"send_message">>]}
    ELSE IF download = "raises"
    THEN RestoredFrom(config, backup)
    ELSE UNION {
        IF saved.raised
        THEN RestoredFrom(config, saved.file)
        ELSE UNION {
            IF dump.raised
            THEN RestoredFrom(dump.file, saved.file)
            ELSE {[config |-> dump.file, backup |-> saved.file,
                   events |-> <<"backup", "write", "ConfigManager",
                                "Configuration Updated">>]} :
            dump \in WriteOutcomes(config, uploaded)} :
        saved \in CopyOutcomes(config, backup)}

\* handle_document with the update_config caption, and handle_update_config.
HandleUpdateConfig ==
    /\ pc = "idle"
    /\ \E chat_id \in ChatIds, uploaded \in Uploads,
          download \in DownloadOutcomes :
        /\ is_authorized(chat_id)
        /\ update' = <<DocumentUpdate(chat_id, "update_config", uploaded)>>
        /\ \E result \in UpdateResults(config_json, config_backup, uploaded,
                                       download) :
            /\ config_json' = result.config
            /\ config_backup' = result.backup
            /\ events' = result.events
    /\ UNCHANGED autoposter_processes
    /\ last_mark' = <<>>
    /\ sent' = <<>>
    /\ delay' = <<>>
    /\ logins' = <<>>
    /\ UNCHANGED <<pc, configVars, loginVars, user_id, config_file, ledger,
                   cycle_stats, acct, new_posts, post_idx, dispatchVars, cycles,
                   historyVars, selectionVars, dispatched, stored_mains>>

\* A controller started with no autoposter running, a configuration in
\* config.json and no backup of it.
ControllerInit ==
    /\ AtRest
    /\ ledger = [m \in MainNames |-> AbsentFile]
    /\ appended = <<>>
    /\ autoposter_processes = 0
    /\ config_json = OkFile(ConfigDocument(MainNames))
    /\ config_backup = AbsentFile
    /\ update = <<>>

ControllerNext ==
    \/ HandleUnauthorized
    \/ HandleReport
    \/ HandleStartBot
    \/ HandleStopBot
    \/ HandleRestartBot
    \/ HandleUpdateConfig
    \/ AutoposterExits

ControllerSpec == ControllerInit /\ [][ControllerNext]_vars

\* ------------------------------------------------------------------ claims

\* C1: a post whose dispatch ended with at least one successful comment is
\* never selected by check_new_posts again in a later cycle of the same main
\* account, whatever the saves, the restarts and the fetched batches do.
C1_NeverSelectedAgain == reselected = {}

\* The selection has been computed and is held by the caller.
Selected == pc = "selected"

\* The record the selection read.
ReadIds == Range(commented_data.commented_post_ids)

\* C2: check_new_posts never returns a post whose id is in the
\* commented_post_ids it read, under either policy and whatever the post's
\* timestamp.
C2_NeverReturnsCommentedId ==
    \A i \in DOMAIN posts_to_comment : posts_to_comment[i].pk \notin ReadIds

\* C2's case: a fetched post of an allowed type, newer than
\* last_commented_timestamp, whose id is in commented_post_ids, is left out.
C2_Witness ==
    /\ Selected
    /\ \E i \in DOMAIN recent_posts :
        /\ recent_posts[i].pk \in ReadIds
        /\ should_comment_on_media(recent_posts[i])
        /\ recent_posts[i].taken_at > commented_data.last_commented_timestamp
        /\ recent_posts[i] \notin Range(posts_to_comment)

\* C3: the stored last_commented_timestamp of a main account never decreases
\* from one saved record to the next.
C3_TimestampNeverDecreases ==
    [][\A m \in MainNames :
          (ledger[m].state = "ok" /\ ledger'[m].state = "ok")
          => ledger'[m].data.last_commented_timestamp
               >= ledger[m].data.last_commented_timestamp]_vars

\* C4: in steady state, a fetched post of an allowed type whose id is not in
\* commented_post_ids is returned if and only if its timestamp is strictly
\* greater than last_commented_timestamp.
C4_SteadyThreshold ==
    commented_data.last_commented_post_id /= None
    => \A i \in DOMAIN recent_posts :
         (recent_posts[i].pk \notin ReadIds /\ should_comment_on_media(recent_posts[i]))
         => (recent_posts[i] \in Range(posts_to_comment)
             <=> recent_posts[i].taken_at > commented_data.last_commented_timestamp)

\* C4's case: of two fetched posts not commented yet, the one newer than the
\* threshold is returned and the one exactly at the threshold is not.
C4_Witness ==
    /\ Selected
    /\ commented_data.last_commented_post_id /= None
    /\ \E i, j \in DOMAIN recent_posts :
        /\ recent_posts[i].pk \notin ReadIds
        /\ should_comment_on_media(recent_posts[i])
        /\ recent_posts[i].taken_at = commented_data.last_commented_timestamp
        /\ recent_posts[i] \notin Range(posts_to_comment)
        /\ recent_posts[j].taken_at > commented_data.last_commented_timestamp
        /\ recent_posts[j] \in Range(posts_to_comment)

\* C5: on first run, a batch holding a post of an allowed type yields exactly
\* one post, the first in fetch order of an allowed type.
C5_FirstRunExactlyOne ==
    (/\ commented_data.last_commented_post_id = None
     /\ \E i \in DOMAIN recent_posts : should_comment_on_media(recent_posts[i]))
    => \E i \in DOMAIN recent_posts :
         /\ should_comment_on_media(recent_posts[i])
         /\ \A j \in 1..(i - 1) : ~should_comment_on_media(recent_posts[j])
         /\ posts_to_comment = <<recent_posts[i]>>

\* C5's case: a first-run batch whose first post is not of an allowed type,
\* whose second is, and is older: the second is the one returned.
C5_Witness ==
    /\ Selected
    /\ commented_data.last_commented_post_id = None
    /\ Len(recent_posts) = 2
    /\ ~should_comment_on_media(recent_posts[1])
    /\ should_comment_on_media(recent_posts[2])
    /\ recent_posts[2].taken_at < recent_posts[1].taken_at
    /\ posts_to_comment = <<recent_posts[2]>>

\* The ids the ledger of LedgerAccount holds, as load_commented_posts reads them.
StoredIds == load_commented_posts(ledger[LedgerAccount]).commented_post_ids

\* C6: commented_post_ids never holds more than 100 ids, and it is the ids
\* appended since the record last read as empty, in the order they were
\* appended, less the oldest ones beyond 100.
C6_LedgerCap ==
    /\ Len(StoredIds) <= MaxCommentedIds
    /\ Len(StoredIds) = Min(Len(appended), MaxCommentedIds)
    /\ StoredIds = SubSeq(appended, Len(appended) - Len(StoredIds) + 1, Len(appended))

\* C6's case: more than 100 ids were appended, the last of them by a call of
\* this run, and the first one appended has been evicted.
C6_Witness ==
    /\ Len(appended) > MaxCommentedIds + 1
    /\ Len(StoredIds) = MaxCommentedIds
    /\ appended[1] \notin Range(StoredIds)
    /\ appended[2] \notin Range(StoredIds)

\* process_new_post has returned (DispatchSpec dispatches one post).
DispatchReturned == pc = "posts" /\ post_idx > Len(new_posts)

\* Some comment of the current dispatch succeeded.
SomeSuccess == \E i \in DOMAIN attempts : attempts[i].result

\* C7: within one process_new_post call mark_post_commented is called once if
\* a comment succeeded and not at all otherwise, and only after every selected
\* account was attempted.
C7_MarkedOnceAfterAllAttempts ==
    /\ mark_calls \in {0, 1}
    /\ mark_calls = 1 => (Len(attempts) = Len(selected_accounts) /\ SomeSuccess)
    /\ DispatchReturned => (mark_calls = 1 <=> SomeSuccess)

\* C7's case: two accounts attempted, the first succeeded, the second failed,
\* and the call returned after one mark.
C7_Witness ==
    /\ DispatchReturned
    /\ Len(attempts) = 2
    /\ attempts[1].result
    /\ ~attempts[2].result
    /\ mark_calls = 1

\* C8: the ledger of a main account is written at most once for a given post
\* id, and only for posts on which a comment succeeded.
C8_WrittenAtMostOnce ==
    /\ rewritten = {}
    /\ written \subseteq succeeded

\* The accounts that are both logged in and enabled.
Candidates == Range(sub_clients) \cap enabled_subs

\* C9: with no account both logged in and enabled, process_new_post makes no
\* comment call, no pacing sleep and no ledger write, and returns.
C9_NoCandidateNoAction ==
    Candidates = {}
    => /\ pc = "posts"
       /\ attempts = <<>>
       /\ sleeps = 0
       /\ mark_calls = 0
       /\ cycle_stats = ZeroStats
       /\ \A m \in MainNames : ledger[m] = AbsentFile

\* C9's case: accounts are logged in and accounts are enabled, but none is
\* both, and the call has returned.
C9_Witness ==
    /\ DispatchReturned
    /\ sub_clients /= <<>>
    /\ enabled_subs /= {}
    /\ Candidates = {}

\* C10: a dispatch makes min(max_comments_per_post, number of candidates)
\* comment attempts, each by a different account, each account logged in and
\* enabled.
C10_DistinctCandidateAttempts ==
    /\ \A i \in DOMAIN attempts : attempts[i].username \in Candidates
    /\ \A i, j \in DOMAIN attempts :
         i /= j => attempts[i].username /= attempts[j].username
    /\ DispatchReturned
       => Len(attempts) = Min(max_comments_per_post, Cardinality(Candidates))

\* C10's case: three candidates, of which max_comments_per_post were attempted.
C10_Witness ==
    /\ DispatchReturned
    /\ Cardinality(Candidates) = 3
    /\ Len(attempts) = max_comments_per_post

\* The accounts comment_on_post was called with in the current dispatch, in
\* call order.
AttemptedAccounts == [i \in DOMAIN attempts |-> attempts[i].username]

\* C11: a failed comment never keeps the remaining selected accounts from
\* being attempted: when process_new_post returns, comment_on_post was called
\* for every selected account, once each, in the order selected, whatever the
\* outcomes were; and the loop over new_posts is left only when every selected
\* post was dispatched.
C11_FailureNeverSkips ==
    /\ (pc = "posts" /\ post_idx > 1) => AttemptedAccounts = selected_accounts
    /\ pc \in {"account", "sleep", "cycle"} => post_idx > Len(new_posts)

\* C11's case: the first of two selected posts ended without a successful
\* comment, the second is being dispatched, its first comment failed and its
\* second selected account was attempted all the same.
C11_Witness ==
    /\ pc = "comment"
    /\ post_idx = 2
    /\ <<CurrentAccount, new_posts[1].pk>> \notin succeeded
    /\ Len(attempts) = 2
    /\ ~attempts[1].result

\* The steps of a monitoring cycle that resolve a user id, fetch posts, post a
\* comment or write a ledger.
CycleWork ==
    {"user_id_from_username", "user_medias_v1", "media_comment",
     "load_commented_posts", "mark_post_commented"}

\* C12: a run in which no enabled sub account logged in never enters a
\* monitoring cycle: it stands before the startup checks or has ended, and the
\* step it just took resolved no user id, fetched nothing, commented nothing
\* and wrote no ledger.
C12_NoLoginNoCycle ==
    sub_clients = <<>>
    => /\ pc \in {"login", "startup", "exited"}
       /\ Range(events) \cap CycleWork = {}

\* C12's case: sub accounts are enabled, none logged in, the startup error
\* was notified and run() has returned.
C12_Witness ==
    /\ pc = "exited"
    /\ enabled_subs /= {}
    /\ sub_clients = <<>>
    /\ events = send_error_notification("Startup Error")

\* The error notifications among the events of the step just taken.
ErrorsNotified ==
    {i \in DOMAIN events :
        events[i] \in {"Startup Error", "Monitoring Error", "Critical Error"}}

\* check_new_posts has returned for a main account whose user id is still
\* unknown: user_id_from_username raised and get_user_id returned None.
ResolutionFailed == pc = "posts" /\ user_id[CurrentAccount] = ""

C14_UnresolvedIdSkipsAccount ==
    ResolutionFailed
    => /\ new_posts = <<>>
       /\ post_idx > Len(new_posts)
       /\ Range(events) \cap
            {"user_medias_v1", "load_commented_posts", "mark_post_commented"} = {}
       /\ ErrorsNotified = {}

\* C14's case: in one cycle the first main account was resolved and a new
\* post of it was found, then the resolution of the second one failed.
C14_Witness ==
    /\ ResolutionFailed
    /\ acct = 2
    /\ cycle_stats.accounts_checked = 2
    /\ cycle_stats.new_posts_found > 0

\* C15: run() ends only by a stop signal or by an exception that escapes the
\* loop (or, before the first cycle, by the failed startup checks): no failed
\* resolution, fetch, comment, save or notification ends it; and after the
\* sleep that follows a cycle run() stands at the top of the loop again.
C15_LoopEndsOnlyOnStop ==
    /\ pc = "exited"
       => /\ events /= <<>>
          /\ \/ events[1] \in {"KeyboardInterrupt", "SIGTERM"}
             \/ events[1] = "Critical Error"
             \/ events = <<"Startup Error">>
    /\ events = <<"time.sleep">> => pc = "cycle"

\* C15's case: a cycle in which the resolution of the second main account
\* failed, a comment failed and a ledger save was torn has ended, the sleep is
\* over and run() is about to start the next cycle.
C15_Witness ==
    /\ pc = "cycle"
    /\ cycles = 1
    /\ events = <<"time.sleep">>
    /\ cycle_stats.accounts_checked = 2
    /\ user_id[main_accounts[2]] = ""
    /\ cycle_stats.failed_comments > 0
    /\ ledger[main_accounts[1]] = CorruptFile

\* A step of a monitoring cycle can be taken.
CycleStepEnabled ==
    ENABLED (\/ BeginCycle
             \/ ResolveFails
             \/ ResolveSaveRaises
             \/ CheckNewPosts
             \/ ProcessNewPost
             \/ CommentOnPost
             \/ FinishPost)

\* C16: the step in which an exception escapes the monitoring loop notifies
\* the Critical Error, then the shutdown, and nothing else, and ends run();
\* once run() has ended no cycle starts and no resolution, fetch, dispatch or
\* comment step can be taken.
C16_CriticalErrorEndsRun ==
    /\ "Critical Error" \in Range(events)
       => /\ events = <<"Critical Error", "shutdown">>
          /\ pc = "exited"
    /\ pc = "exited" => ~CycleStepEnabled

\* C16's case: after a cycle in which a comment was posted the interval sleep
\* raised, both notifications were sent and run() has ended.
C16_Witness ==
    /\ pc = "exited"
    /\ events = <<"Critical Error", "shutdown">>
    /\ cycles = 1
    /\ cycle_stats.successful_comments > 0

\* The positions of run() inside its monitoring loop.
Monitoring == {"cycle", "account", "posts", "comment", "sleep"}

\* The step taken from the current state is the arrival of a stop signal.
StopSignalArrives ==
    /\ events' /= <<>>
    /\ events'[1] \in {"KeyboardInterrupt", "SIGTERM"}

\* C17: a stop signal that arrives while run() is in its monitoring loop ends
\* run() with exactly one shutdown notification.
C17_StopNotifiesShutdownOnce ==
    [][(pc \in Monitoring /\ StopSignalArrives)
       => /\ pc' = "exited"
          /\ Cardinality({i \in DOMAIN events' : events'[i] = "shutdown"}) = 1]_vars

\* C18: a stop signal takes effect only between two iterations of the loop
\* of run(), never inside a cycle or a sleep, so run() never ends at a point
\* where a comment on a post has succeeded and the post is not marked in the
\* ledger yet.
C18_NeverStopsBeforeMark ==
    pc = "exited" => ~(SomeSuccess /\ mark_calls = 0)

\* C19: at the end of a cycle the cycle summary is notified, once, if and
\* only if a new post was found or a comment succeeded or a comment failed in
\* that cycle; with all three at zero nothing is notified, whatever the number
\* of accounts checked.
C19_SummaryIffSomethingHappened ==
    pc = "sleep"
    => /\ events \in {<<>>, <<"cycle_summary">>}
       /\ events = <<"cycle_summary">>
          <=> \/ cycle_stats.new_posts_found > 0
              \/ cycle_stats.successful_comments > 0
              \/ cycle_stats.failed_comments > 0

\* C19's case: a cycle that checked two accounts, found no new post and made
\* no comment has ended, and no summary was notified.
C19_Witness ==
    /\ pc = "sleep"
    /\ cycle_stats.accounts_checked = 2
    /\ cycle_stats.new_posts_found = 0
    /\ cycle_stats.successful_comments = 0
    /\ cycle_stats.failed_comments = 0
    /\ events = <<>>

\* The media type of a post is one of allowed_media_types.
AllowedType(post) == get_media_type_name(post) \in allowed_media_types

\* C20: check_new_posts never returns a post whose media type is not in
\* allowed_media_types, on first run and in steady state; and when the batch
\* is empty or holds no post of an allowed type, it returns the empty list.
C20_OnlyAllowedMedia ==
    /\ \A i \in DOMAIN posts_to_comment : AllowedType(posts_to_comment[i])
    /\ (\A i \in DOMAIN recent_posts : ~AllowedType(recent_posts[i]))
       => posts_to_comment = <<>>

\* C20's case: in steady state the batch starts with an IGTV post that is
\* newer than last_commented_timestamp and not commented yet, followed by a
\* post of an allowed type; only the second one is returned.
C20_Witness ==
    /\ Selected
    /\ commented_data.last_commented_post_id /= None
    /\ Len(recent_posts) = 2
    /\ get_media_type_name(recent_posts[1]) = "igtv"
    /\ recent_posts[1].pk \notin ReadIds
    /\ recent_posts[1].taken_at > commented_data.last_commented_timestamp
    /\ posts_to_comment = <<recent_posts[2]>>


\* s is t with some elements left out, the others in the order of t.
IsSubsequence(s, t) ==
    \E at \in [1..Len(s) -> 1..Len(t)] :
        /\ \A i \in 1..Len(s) : s[i] = t[at[i]]
        /\ \A i, j \in 1..Len(s) : i < j => at[i] < at[j]

\* C21: with a ledger on record the posts selected are a subsequence of the
\* fetched batch, in the order of the fetch; monitor_accounts hands them to
\* process_new_post in exactly that order, and a post is handed over only
\* when every attempt on the post before it was made.
C21_DispatchInFetchOrder ==
    pc \in {"posts", "comment"} =>
        /\ new_posts = posts_to_comment
        /\ commented_data.last_commented_post_id /= None =>
               IsSubsequence(new_posts, recent_posts)
        /\ Len(dispatched) <= Len(new_posts)
        /\ \A i \in 1..Len(dispatched) : dispatched[i] = new_posts[i]
        /\ pc = "comment" => Len(dispatched) = post_idx
        /\ pc = "posts" =>
               /\ Len(dispatched) = post_idx - 1
               /\ Len(attempts) = Len(selected_accounts)

\* Two different posts of a batch of a steady-state cycle were both dispatched,
\* each with two attempts.
C21_Witness ==
    /\ pc = "posts"
    /\ commented_data.last_commented_post_id /= None
    /\ Len(dispatched) = 2
    /\ dispatched[1] /= dispatched[2]
    /\ dispatched = recent_posts
    /\ Len(attempts) = 2


\* ids with post_id at the end if it was not among them.
WithId(ids, post_id) ==
    IF \E i \in DOMAIN ids : ids[i] = post_id THEN ids ELSE ids \o <<post_id>>

\* The last 100 entries of ids.
NewestIds(ids) ==
    SubSeq(ids, Len(ids) - Min(Len(ids), MaxCommentedIds) + 1, Len(ids))

\* file holds the record the claim describes for a call made when the ids
\* stored were before.
Holds(file, before, call) ==
    /\ file.state = "ok"
    /\ file.data.last_commented_post_id = call.post_id
    /\ file.data.last_commented_timestamp = call.post_timestamp
    /\ file.data.commented_post_ids = NewestIds(WithId(before, call.post_id))

\* The call of this step left the record the claim describes.
RecordLeft ==
    Holds(ledger'[last_mark'[1].username],
          load_commented_posts(ledger[last_mark'[1].username]).commented_post_ids,
          last_mark'[1])

\* C22 as stated: every mark_post_commented call leaves the stored record of
\* the account with the id and timestamp of the call and with the previous
\* ids, the id appended only if absent, cut to the last 100.
C22_MarkLeavesRecord ==
    [][last_mark' /= <<>> => RecordLeft]_vars

\* C22, amended: a mark_post_commented call whose save succeeds leaves that
\* record; a call whose save fails leaves the file as it was, or unreadable
\* when the failure came after open() truncated it.
C22_MarkLeavesRecordWhenSaved ==
    [][last_mark' /= <<>> =>
         LET call == last_mark'[1]
         IN /\ call.outcome = "ok" => RecordLeft
            /\ call.outcome /= "ok" =>
                 \/ ledger'[call.username] = ledger[call.username]
                 \/ ledger'[call.username].state = "corrupt"]_vars

\* C22's case: a saved call for an id that was already stored, in a list at
\* its cap; the id is still the oldest entry and the list still holds 100.
C22_Witness ==
    /\ last_mark /= <<>>
    /\ last_mark[1].outcome = "ok"
    /\ ledger[LedgerAccount].state = "ok"
    /\ Len(StoredIds) = MaxCommentedIds
    /\ StoredIds[1] = last_mark[1].post_id
    /\ ledger[LedgerAccount].data.last_commented_post_id = last_mark[1].post_id


\* C23: when the ledger file of the account is missing or cannot be parsed,
\* load_commented_posts returns the default record (no last post, timestamp
\* 0, no ids) and check_new_posts goes on under the first-run policy: at most
\* one post, the first of the batch of an allowed type; the call is never
\* prevented from returning a selection.
C23_UnreadableLedgerIsFirstRun ==
    ledger[LedgerAccount].state /= "ok" =>
        /\ pc = "idle" => ENABLED SelectPosts
        /\ Selected =>
            /\ commented_data =
                 [last_commented_post_id |-> None,
                  last_commented_timestamp |-> 0,
                  commented_post_ids |-> <<>>]
            /\ Len(posts_to_comment) <= 1
            /\ \A i \in DOMAIN recent_posts :
                 (/\ AllowedType(recent_posts[i])
                  /\ \A j \in 1..(i - 1) : ~AllowedType(recent_posts[j]))
                 => posts_to_comment = <<recent_posts[i]>>
            /\ (\A i \in DOMAIN recent_posts : ~AllowedType(recent_posts[i]))
                 => posts_to_comment = <<>>

\* C23's case: the file was torn by a failed save, the batch holds two
\* different posts of allowed types, and only the first is selected.
C23_Witness ==
    /\ Selected
    /\ ledger[LedgerAccount].state = "corrupt"
    /\ Len(recent_posts) = 2
    /\ recent_posts[1] /= recent_posts[2]
    /\ AllowedType(recent_posts[1])
    /\ AllowedType(recent_posts[2])
    /\ posts_to_comment = <<recent_posts[1]>>


\* C24: the ledger records of the main accounts are independent. A step
\* changes the file of an account only by a mark_post_commented call for that
\* account, so a mark, a failed save or a torn file of one account leaves the
\* files of the others as they were; such a call returns to the loop over
\* new_posts whatever became of its save; and an enabled main account whose
\* id is known is fetched and selected for whatever the files of the accounts
\* before it hold.
C24_LedgersIndependent ==
    [][/\ \A m \in MainNames :
            ledger'[m] /= ledger[m]
            => /\ last_mark' /= <<>>
               /\ last_mark'[1].username = m
       /\ last_mark' /= <<>> => pc' = "posts"
       /\ (/\ pc = "account"
           /\ acct <= Len(main_accounts)
           /\ CurrentAccount \in enabled_mains
           /\ user_id[CurrentAccount] /= "")
          => ENABLED CheckNewPosts]_vars

\* C24's case: in one cycle the save for the first main account tore its
\* file, and a post of the second was commented and marked in its own file.
C24_Witness ==
    /\ pc = "posts"
    /\ cycles = 1
    /\ acct = 2
    /\ last_mark /= <<>>
    /\ last_mark[1].username = main_accounts[2]
    /\ last_mark[1].outcome = "ok"
    /\ ledger[main_accounts[1]].state = "corrupt"
    /\ ledger[main_accounts[2]].state = "ok"


\* Everything but the fate of the messages handed to send_message: the
\* position of run(), the configuration, the logins, the files, the
\* statistics, the dispatch in progress and what was handed to the notifier.
coreVars ==
    <<pc, configVars, loginVars, user_id, config_file, ledger, cycle_stats, acct,
      new_posts, post_idx, dispatchVars, cycles, historyVars, selectionVars,
      events, dispatched, last_mark>>

\* The messages of sent, without what became of them.
Messages(deliveries) == [i \in DOMAIN deliveries |-> deliveries[i].message]

\* C25: what becomes of a notification never changes what the program does.
\* Whenever a step of process_new_post hands a message to send_message, the
\* same step, with the same comment actions, attempts, statistics, files and
\* position, and the same message, can be taken with the message delivered,
\* with the delivery failed, and with the notifier disabled; and the step
\* stays in the loop over the selected accounts, so no failed delivery is
\* raised into the cycle.
C25_DeliveryNeverSteers ==
    [][sent' /= <<>> =>
         /\ pc' = "comment"
         /\ \A enabled \in BOOLEAN :
            \A outcome \in send_message(enabled) :
            \A core \in {coreVars'} :
            \A messages \in {Messages(sent')} :
               ENABLED (/\ CommentOnPostWith(enabled)
                        /\ coreVars' = core
                        /\ Messages(sent') = messages
                        /\ sent'[1].outcome = outcome)]_vars

\* C25's case: a comment was posted, the delivery of its notification failed,
\* and the comment counts as a success all the same.
C25_Witness ==
    /\ pc = "comment"
    /\ sent /= <<>>
    /\ sent[1].outcome = "failed"
    /\ sent[1].message.kind = "comment_success"
    /\ commented_successfully
    /\ cycle_stats.successful_comments = 1


\* The fetch of the step taken from the current state failed.
FetchFails == \E i \in DOMAIN events' : events'[i] = "Failed to get posts"

\* C26: a fetch that fails is treated as an empty batch. The step selects
\* nothing, stands at the end of the (empty) loop over new_posts so that the
\* next account is taken up, counts the account as checked and no new post,
\* posts no comment, writes no ledger and notifies no error.
C26_FailedFetchIsEmptyBatch ==
    [][FetchFails =>
         /\ new_posts' = <<>>
         /\ pc' = "posts"
         /\ post_idx' = 1
         /\ ledger' = ledger
         /\ cycle_stats' = [cycle_stats EXCEPT !.accounts_checked = @ + 1]
         /\ \A i \in DOMAIN events' :
              events'[i] \notin {"media_comment", "mark_post_commented",
                                 "Monitoring Error", "Critical Error",
                                 "shutdown"}
         /\ last_mark' = <<>>
         /\ sent' = <<>>]_vars

\* C26's case: in the second cycle the fetch for the first main account
\* failed; its ledger holds a record, and nothing was selected.
C26_Witness ==
    /\ "Failed to get posts" \in Range(events)
    /\ cycles = 2
    /\ acct = 1
    /\ ledger[main_accounts[1]].state = "ok"
    /\ new_posts = <<>>


\* C27: every monitoring cycle runs against one snapshot of the
\* configuration. While a cycle is in progress the enabled flags and the other
\* settings in use do not change, whatever the controller writes to
\* config.json; and a cycle that starts uses the configuration config.json
\* holds at that moment, so that a replaced configuration is in effect from
\* the next cycle on.
C27_SnapshotPerCycle ==
    [][/\ (pc \in Monitoring /\ pc' \in Monitoring /\ cycles' = cycles)
          => configVars' = configVars
       /\ cycles' = cycles + 1 => enabled_mains' = stored_mains']_vars


\* C28: a save that fails inside mark_post_commented is not propagated, the
\* call returns to the loop over new_posts; and the record the call built
\* stays in effect: a ledger read made after it returns the id and the
\* timestamp of the call as the last ones, and the id among the stored ids.
C28_FailedSaveStaysInEffect ==
    (last_mark /= <<>> /\ last_mark[1].outcome /= "ok") =>
        LET call == last_mark[1]
            data == load_commented_posts(
                        ledger[get_commented_posts_file(call.username)])
        IN /\ pc = "posts"
           /\ data.last_commented_post_id = call.post_id
           /\ data.last_commented_timestamp = call.post_timestamp
           /\ call.post_id \in Range(data.commented_post_ids)


\* The positions of the loop over new_posts.
Dispatching == {"posts", "comment"}

\* The posts of new_posts the loop of monitor_accounts has yet to hand to
\* process_new_post, in the state a step leads to.
StillToDispatch ==
    SubSeq(new_posts', Len(dispatched') + 1, Len(new_posts'))

\* C29: the selection of an account is computed once per cycle, by
\* check_new_posts, from the ledger as it is before any post of the batch is
\* dispatched; from then on the posts dispatched so far followed by the posts
\* still to be dispatched are that selection, whatever the dispatch writes to
\* the ledger: no post is added, removed or moved.
C29_SelectionFixedBeforeDispatch ==
    [][/\ pc' = "selected"
          => /\ commented_data' = load_commented_posts(
                     ledger[get_commented_posts_file(LedgerAccount)])
             /\ ledger' = ledger
             /\ dispatched' = <<>>
       /\ (pc \in Dispatching \cup {"selected"} /\ pc' \in Dispatching)
          => /\ posts_to_comment' = posts_to_comment
             /\ commented_data' = commented_data
             /\ recent_posts' = recent_posts
             /\ dispatched' \o StillToDispatch = posts_to_comment]_vars

\* C29's case: the first of two selected posts was commented and marked, the
\* ledger now holds a later timestamp than the second post's, so that a new
\* selection from the same batch would be empty, and the second post is
\* dispatched all the same.
C29_Witness ==
    /\ pc = "comment"
    /\ Len(new_posts) = 2
    /\ dispatched = new_posts
    /\ commented_data.last_commented_post_id /= None
    /\ load_commented_posts(ledger[LedgerAccount]).last_commented_post_id
         = new_posts[1].pk
    /\ new_posts[2].taken_at
         < load_commented_posts(ledger[LedgerAccount]).last_commented_timestamp
    /\ SelectNewPosts(recent_posts, load_commented_posts(ledger[LedgerAccount]))
         = <<>>


\* C30: every comment attempt hands exactly one message to the notifier, a
\* success message when the comment was posted and a failure message
\* otherwise, naming the main account, the post, its media type and the sub
\* account that acted; and the comment of a success message is the comment
\* that was posted.
C30_AttemptNotifiedAsPosted ==
    (pc = "comment" /\ attempts /= <<>>) =>
        LET attempt == attempts[Len(attempts)]
        IN /\ Len(sent) = 1
           /\ sent[1].message.kind =
                IF attempt.result THEN "comment_success" ELSE "comment_failure"
           /\ sent[1].message.main_account = CurrentAccount
           /\ sent[1].message.post_code = CurrentPost.pk
           /\ sent[1].message.media_type = get_media_type_name(CurrentPost)
           /\ sent[1].message.sub_account = attempt.username
           /\ attempt.result => sent[1].message.comment = attempt.comment


\* The places of events at which a comment was posted through the API.
CommentCalls == {i \in DOMAIN events : events[i] = "media_comment"}

\* C31: every comment-posting call comes right after a pacing sleep of its
\* own, whose duration lies within comment_delay_range, both ends included: a
\* step posts at most one comment, the call before it in the step is the
\* sleep, and as many pacing sleeps as attempts were made in the dispatch, so
\* no two comments, on one post or on two, go without a sleep between them.
C31_SleepBeforeEveryComment ==
    /\ Cardinality(CommentCalls) <= 1
    /\ \A i \in CommentCalls :
         /\ i > 1
         /\ events[i - 1] = "time.sleep"
         /\ Len(delay) = 1
         /\ delay[1] >= comment_delay_range[1]
         /\ delay[1] <= comment_delay_range[2]
    /\ pc = "comment" => sleeps = Len(attempts)

\* C31's case: the second comment on the second post of an account was
\* posted, after a sleep of the longest duration of the range.
C31_Witness ==
    /\ pc = "comment"
    /\ post_idx = 2
    /\ Len(attempts) = 2
    /\ CommentCalls /= {}
    /\ delay = <<comment_delay_range[2]>>
    /\ comment_delay_range[1] < comment_delay_range[2]


\* The step taken from the current state is a comment_on_post call.
AttemptMade == Len(attempts') = Len(attempts) + 1

\* The step taken from the current state is a check_new_posts call that
\* returned to monitor_accounts.
SelectionReturned ==
    \E i \in DOMAIN events' : events'[i] = "load_commented_posts"

\* C32: the statistics are reset when a cycle starts; every comment attempt
\* adds one to exactly one of successful_comments and failed_comments, the
\* one its result names, and nothing else changes the two; new_posts_found
\* grows by the number of posts selected each time a selection is returned
\* and by nothing else; and when the cycle ends accounts_checked is the
\* number of enabled main accounts. So at the end of a cycle the counts are
\* the totals of the cycle.
C32_StatsAreCycleTotals ==
    [][/\ cycles' = cycles + 1 => cycle_stats' = ZeroStats
       /\ (cycles' = cycles /\ pc' /= "login") =>
            /\ cycle_stats'.successful_comments =
                 cycle_stats.successful_comments
                 + (IF AttemptMade /\ attempts'[Len(attempts')].result
                    THEN 1 ELSE 0)
            /\ cycle_stats'.failed_comments =
                 cycle_stats.failed_comments
                 + (IF AttemptMade /\ ~attempts'[Len(attempts')].result
                    THEN 1 ELSE 0)
            /\ cycle_stats'.new_posts_found =
                 cycle_stats.new_posts_found
                 + (IF SelectionReturned THEN Len(new_posts') ELSE 0)
       /\ (pc = "account" /\ pc' = "sleep") =>
            cycle_stats.accounts_checked = Cardinality(enabled_mains)]_vars

\* C32's case: the second cycle has ended with both main accounts checked,
\* posts found, a comment posted and a comment failed.
C32_Witness ==
    /\ pc = "sleep"
    /\ cycles = 2
    /\ cycle_stats.accounts_checked = 2
    /\ cycle_stats.new_posts_found >= 2
    /\ cycle_stats.successful_comments >= 1
    /\ cycle_stats.failed_comments >= 1


\* The places of the events of the step taken at which call was made.
CallsOf(call) == {i \in DOMAIN events' : events'[i] = call}

\* C33: the user id of a main account is resolved only while it is unknown.
\* A step calls the resolver at most once, first of all, for the account the
\* cycle is at and only when no id is in memory; the account is then left
\* behind for the rest of the cycle; a step that resolves and goes on to the
\* fetch has stored the id and saved the configuration before the fetch; and
\* an id in memory is never changed while the process runs.
C33_ResolvedOnlyWhileUnknown ==
    [][/\ CallsOf("user_id_from_username") /= {} =>
            /\ CallsOf("user_id_from_username") = {1}
            /\ pc = "account"
            /\ user_id[CurrentAccount] = ""
            /\ pc' = "posts" \/ acct' = acct + 1
            /\ \A m \in MainNames \ {CurrentAccount} : user_id'[m] = user_id[m]
            /\ \A i \in CallsOf("user_medias_v1") :
                 /\ user_id'[CurrentAccount] /= ""
                 /\ config_file'[CurrentAccount] = user_id'[CurrentAccount]
                 /\ \E j \in CallsOf("save_config") : j < i
       /\ CallsOf("user_id_from_username") = {} =>
            (pc' /= "login" => user_id' = user_id)
       /\ (pc' = "account" /\ pc \in {"posts", "comment"}) => acct' = acct + 1
       /\ (pc' /= "login" /\ cycles' = cycles) => acct' >= acct
       /\ \A m \in MainNames :
            (user_id[m] /= "" /\ pc' /= "login") => user_id'[m] = user_id[m]]_vars

\* C33's case: in the second cycle the id of the second main account, which
\* the first cycle failed to resolve, was resolved and saved and its posts
\* were fetched, while the first account's id was known all along.
C33_Witness ==
    /\ cycles = 2
    /\ acct = 2
    /\ pc = "posts"
    /\ events = <<"user_id_from_username", "save_config", "user_medias_v1",
                  "load_commented_posts">>
    /\ config_file[main_accounts[2]] /= ""
    /\ ledger[main_accounts[1]].state = "ok"
    /\ cycle_stats.accounts_checked = 2


\* The sub accounts whose login the step just taken tried, in order.
Tried == [i \in DOMAIN logins |-> logins[i].username]

\* The sub accounts whose login succeeded, restored or fresh.
LoggedIn == {logins[i].username : i \in {j \in DOMAIN logins : logins[j].how /= "failed"}}

\* C34: after login_sub_accounts, sub_clients holds exactly the enabled sub
\* accounts whose login succeeded, in configured order; every enabled
\* account was tried, in configured order, whatever became of the ones before
\* it, and no disabled account was; and the accounts reported as failed are
\* exactly the enabled accounts that are not in sub_clients (nothing is
\* reported when there is none).
C34_ClientsAreSuccessfulLogins ==
    pc = "startup" =>
        /\ Tried = InConfiguredOrder(enabled_subs)
        /\ Range(sub_clients) = LoggedIn
        /\ sub_clients = InConfiguredOrder(Range(sub_clients))
        /\ IF enabled_subs \subseteq Range(sub_clients)
           THEN sent = <<>>
           ELSE /\ Len(sent) = 1
                /\ sent[1].message.kind = "login_issues"
                /\ Range(sent[1].message.failed_accounts)
                     = enabled_subs \ Range(sub_clients)


\* The record check_new_posts would read for the account of the ledger runs.
StoredRecord == load_commented_posts(ledger[get_commented_posts_file(LedgerAccount)])

\* C35: in every ledger state reached from the empty record through
\* mark_post_commented calls, whatever their saves did, the record read back
\* lists no post id twice, names no last post exactly when it lists no id, and
\* lists the last post it names.
C35_RecordWellFormed ==
    LET ids == StoredRecord.commented_post_ids
        last == StoredRecord.last_commented_post_id
    IN /\ Cardinality(Range(ids)) = Len(ids)
       /\ last = None <=> ids = <<>>
       /\ last /= None => last \in Range(ids)

\* A call at the cap was saved: the oldest id was dropped, the last post named
\* is the newest id listed.
C35_Witness ==
    /\ last_mark /= <<>>
    /\ last_mark[1].outcome = "ok"
    /\ Len(StoredRecord.commented_post_ids) = MaxCommentedIds
    /\ Len(appended) > MaxCommentedIds
    /\ StoredRecord.last_commented_post_id
         = StoredRecord.commented_post_ids[MaxCommentedIds]


\* The loop of monitor_accounts over new_posts has handed every selected post
\* to process_new_post, and the last call has returned.
AllDispatched == pc = "posts" /\ post_idx > Len(new_posts)

\* The posts dispatched in this cycle on which no comment succeeded.
Unanswered ==
    {dispatched[i] : i \in {j \in DOMAIN dispatched :
                              <<LedgerAccount, dispatched[j].pk>> \notin succeeded}}

\* C36: a selected post on which every comment failed is not lost: when the
\* cycle has dispatched its whole selection, whatever became of the other
\* posts, a next cycle that fetches the same batch selects the post again.
C36_FailedPostSelectedAgain ==
    AllDispatched =>
        \A post \in Unanswered :
            post \in Range(SelectNewPosts(recent_posts,
                       load_commented_posts(
                           ledger[get_commented_posts_file(LedgerAccount)])))


\* The sub accounts whose login succeeded in the step leading to a state, in
\* the order they were tried.
LoggedInOrder ==
    SelectSeq([i \in DOMAIN logins' |-> logins'[i].username],
              LAMBDA u : \E i \in DOMAIN logins' :
                  logins'[i].username = u /\ logins'[i].how /= "failed")

\* C37: login_sub_accounts leaves a monitoring client exactly when it leaves
\* sub_clients non-empty, and it is the client of the first sub account in
\* configured order whose login succeeded; no later step of the process
\* assigns monitoring_client, so that the second startup check of run() never
\* fails after the first has passed.
C37_MonitorIsFirstLogin ==
    [][/\ (pc = "login" /\ pc' = "startup")
          => /\ monitoring_client' /= NoClient <=> sub_clients' /= <<>>
             /\ IF LoggedInOrder = <<>>
                THEN monitoring_client' = NoClient
                ELSE monitoring_client' = LoggedInOrder[1]
       /\ (pc /= "login" /\ pc' /= "login")
          => /\ monitoring_client' = monitoring_client
             /\ sub_clients' = sub_clients
       /\ (pc = "startup" /\ sub_clients /= <<>>)
          => monitoring_client /= NoClient]_vars


\* The update the step leading to a state handled came from a chat that is
\* not in authorized_chat_ids.
FromStranger ==
    /\ update' /= <<>>
    /\ update'[1].chat_id \notin authorized_chat_ids

\* C38: an update from a chat that is not authorized starts, stops and
\* restarts no autoposter, looks for none, reads and writes neither
\* config.json nor its backup, and sends no document: all it can bring about
\* is the 'Unauthorized access' reply, whatever its text, caption or document.
C38_StrangerChangesNothing ==
    [][FromStranger
        => /\ autoposter_processes' = autoposter_processes
           /\ config_json' = config_json
           /\ config_backup' = config_backup
           /\ events' \in {<<>>, <<"Unauthorized access">>}]_vars

\* C38's case: a stranger asked for a restart, and uploaded a configuration,
\* while an autoposter was running.
C38_Witness ==
    /\ update /= <<>>
    /\ update[1].chat_id \notin authorized_chat_ids
    /\ \/ update[1].text = "/restart_bot" /\ events = <<"Unauthorized access">>
       \/ update[1].text = "update_config" /\ update[1].document /= <<>>
    /\ autoposter_processes = 1

\* The step leading to a state was a handle_update_config call.
UpdateAttempted ==
    /\ update' /= <<>>
    /\ update'[1].document /= <<>>
    /\ update'[1].text = "update_config"
    /\ update'[1].chat_id \in authorized_chat_ids

\* The call went through every step: the uploaded document was written, the
\* ConfigManager built from it holds it, and the update was announced.
UpdateSucceeded ==
    /\ "Configuration Updated" \in Range(events')
    /\ update'[1].document[1].usable
    /\ config_json' = OkFile(update'[1].document[1])

\* C39: a handle_update_config call that fails at any step leaves config.json
\* with the content it had before the call; only a call that went through
\* every step changes it.
C39_FailedUpdateKeepsConfig ==
    [][(UpdateAttempted /\ ~UpdateSucceeded) => config_json' = config_json]_vars

\* C40: whatever /start_bot, /stop_bot and /restart_bot commands were
\* handled, at most one autoposter process is running.
C40_AtMostOneAutoposter == autoposter_processes <= 1

====
